---- MODULE Spec2Model ----
(***************************************************************************)
(* Model of the orchestration layer of the Minecraft agent benchmark:      *)
(*   - the session registry of a2a_server.py (init / step / reset / close  *)
(*     / generate / assign / list handlers running on one event loop),     *)
(*   - the evaluation run of launcher.py and green_agent/agent.py,         *)
(*   - the readiness polling loop of utils/a2a_utils.py,                   *)
(*   - the tag codec parse_tags of utils/a2a_utils.py,                     *)
(*   - the performer's task execution of white_agent/agent.py with the     *)
(*     plan tracking of white_agent/hybrid_policy.py.                      *)
(***************************************************************************)
EXTENDS Integers, Sequences, FiniteSets, TLC

\* ------------------------------------------------------------------ bounds
\* simulator handles that can be created in one behaviour
MaxSims == 2
\* resets per session
MaxEpisode == 1
\* entries of the generated-task store
MaxGenerated == 2
\* largest timeout argument tried for wait_agent_ready
MaxTimeout == 8
\* longest text (in tokens) given to parse_tags
MaxTextLen == 6
\* longest plan (in subtasks) the completion service returns
MaxSubtasks == 2
\* largest step budget of a task execution
MaxSteps == 1001
\* largest step budget of the execution in a whole evaluation run
MaxRunSteps == 1
\* longest task list of a batch evaluation
MaxTasks == 2
\* longest assessment text, in tokens
MaxScoreLen == 5
\* longest task list of a compositional task
MaxListLen == 3
\* most lines of a task description
MaxDescLines == 2
\* most lines of a message a client sends to the performer
MaxMsgLines == 4
\* task executions of the performer for one task name
MaxExecs == 2

\* Python None, for an optional id, an optional list and an optional dict
None == -1
NoCommands == <<>>
NoTaskDict == [none |-> TRUE]
GenerationFailed == [fail |-> TRUE]
NoResp == [op |-> "none"]
\* nothing received yet: request tags, performer reply, decoded artifact
NoTags == [none |-> TRUE]
NoReply == [kind |-> "none"]
NoArtifact == [none |-> TRUE]
NoVideoArtifact == [none |-> TRUE]

\* the agent ids clients use; the integer n stands for the id "agent_n", which
\* is also what init_task generates for a request without agent_id
AgentIds == {0, 1}
TaskNames == {"mine_diamond_ore", "no_such_task"}
Difficulties == {"simple"}
\* task configuration files present under task_configs/
ExistingConfigs == {<<"simple", "mine_diamond_ore">>}
TaskIds == 1 .. MaxGenerated

\* the least number of a non-empty set
Least(S) == CHOOSE x \in S : \A y \in S : x <= y

VARIABLES
    MINESTUDIO_AVAILABLE,  \* a2a_server.py module flag, fixed at import
    active_simulations,    \* registry: agent_id -> session
    generated_tasks,       \* store: task_id -> generated config
    sims,                  \* simulator handles created so far (sequence)
    in_progress,           \* requests whose handler is running
    response,              \* response of the last completed handler
    sim_calls,             \* calls made on simulator handles by that handler
    live,                  \* history: ids with a successful init and no successful close since
    was_live,              \* history: the id of the last handler was in live when it ran
    w_timeout, retry_cnt, w_pc, w_result, polls, sleeps, failed_polls, w_last,
    l_pc, procs, g_pc, g_in, events, white_requests, white_response,
    artifact_data, files_written, scoring_calls, scored_path, l_outcome, ready,
    p_text,                \* parse_tags: the argument `text`, a sequence of tokens
    p_pc,                  \* parse_tags: "idle", "call" (called) or "done" (returned)
    p_matches,             \* parse_tags: `matches`, the list re.findall returned
    p_result,              \* parse_tags: the dict returned
    x_pc,                  \* performer: position in _execute_with_minestudio
    plan_outcome,          \* performer: what the completion service gave plan_task
    current_plan,          \* HybridPolicy.current_plan
    current_subtask_index, \* HybridPolicy.current_subtask_index
    steps_in_subtask,      \* HybridPolicy.steps_in_subtask
    completed_subtasks,    \* StateManager.completed_subtasks
    current_subtask,       \* StateManager.current_subtask
    max_steps, step, steps_taken, completed,  \* locals of _execute_with_minestudio
    env,                   \* the MinecraftSim of the execution: "none", "open", "closed"
    env_steps,             \* history: calls of env.step that returned
    vpt_policy,            \* HybridPolicy.vpt_policy: TRUE when a VPT policy was loaded, FALSE for None
    action_source,         \* history: where get_action took its last action from
    signal,                \* how the last loop iteration went
    cancel_reply,          \* per agent, how its last cancel call ended
    task_count,            \* launch_batch_evaluation: len(task_names)
    b_i,                   \* launch_batch_evaluation: `i` of the loop, 0 outside a batch
    prev_procs,            \* history: the processes of task i-1 when task i began
    outcomes,              \* history: how launch_evaluation ended, per task
    batch_result,          \* what launch_batch_evaluation returned
    ev_result,             \* evaluate_video: `result`, the assessment text
    scores,                \* evaluate_video: `scores`
    overall_score,         \* evaluate_video: `overall_score`
    ev_status,             \* evaluate_video: HTTP status of the answer, 0 before
    vlm_result,            \* evaluate_video_with_vlm: `result`
    vlm_scores,            \* evaluate_video_with_vlm: `scores`
    vlm_pc,                \* evaluate_video_with_vlm: "idle", "returned", "raised"
    task_list,             \* _process_compositional_task_list: the argument
    c_result,              \* _process_compositional_task_list: `result`, as its pieces
    c_pc,                  \* _process_compositional_task_list: "idle", "call", "returned", "raised"
    r_in,                  \* performer's execute: the message received, as its lines
    r_sent,                \* history: what the evaluator put into that message
    r_parsed,              \* performer's execute: task_name, difficulty, max_steps, task_config_path
    r_pc,                  \* performer's execute: "idle", "received", "execute", "done", "raised"
    r_events,              \* performer's execute: the messages it enqueued
    white_minestudio,      \* white_agent/agent.py: its own MINESTUDIO_AVAILABLE flag
    e_no,                  \* history: executions of the task begun so far
    e_pc,                  \* performer's try block: "idle", "run", "replied"
    e_reply,               \* what the last execution enqueued: "none", "artifact", "error"
    e_artifact,            \* the artifact_data of the last reply
    output_files           \* the .mp4 files of output/<task_name>

regVars == <<MINESTUDIO_AVAILABLE, active_simulations, generated_tasks, sims,
             in_progress, response, sim_calls, live, was_live>>
waitVars == <<w_timeout, retry_cnt, w_pc, w_result, polls, sleeps, failed_polls, w_last>>
runVars == <<l_pc, procs, g_pc, g_in, events, white_requests, white_response,
             artifact_data, files_written, scoring_calls, scored_path, l_outcome, ready>>
codecVars == <<p_text, p_pc, p_matches, p_result>>
polVars == <<x_pc, plan_outcome, current_plan, current_subtask_index, steps_in_subtask,
             completed_subtasks, current_subtask, max_steps, step, steps_taken,
             completed, env, env_steps, signal, vpt_policy, action_source>>
\* the parts outside the registry, the readiness polling and the evaluation run
batchVars == <<task_count, b_i, prev_procs, outcomes, batch_result>>
\* the parts outside launcher, agents, codec and policy
scoreVars == <<ev_result, scores, overall_score, ev_status, vlm_result, vlm_scores, vlm_pc>>
composeVars == <<task_list, c_result, c_pc>>
reqVars == <<r_in, r_sent, r_parsed, r_pc, r_events>>
executeVars == <<white_minestudio, e_no, e_pc, e_reply, e_artifact, output_files>>
laterVars == <<batchVars, scoreVars, composeVars, reqVars, executeVars>>
otherVars == <<codecVars, polVars, cancel_reply, laterVars>>
vars == <<regVars, waitVars, runVars, otherVars>>

\* ------------------------------------------------------------- registry
\* `agent_id not in active_simulations`
SessionAbsent(a) == a \notin DOMAIN active_simulations

\* `request.agent_id or f"agent_{len(active_simulations)}"`
ResolveAgentId(req_agent) ==
    IF req_agent # None THEN req_agent ELSE Cardinality(DOMAIN active_simulations)

\* convert_yaml_to_callbacks(path): commands and task_dict of a predefined task
PredefinedCommands(name) == <<"cmd">>
PredefinedTaskDict(name) == [name |-> name, text |-> "text_of_file"]

\* os.path.exists(task_configs/{difficulty}/{task_name}.yaml)
ConfigExists(difficulty, name) == <<difficulty, name>> \in ExistingConfigs

\* the dict stored by init_task
NewSession(h, task_dict, difficulty, dir, task_id) ==
    [sim |-> h, task_name |-> task_dict.name, difficulty |-> difficulty,
     task_dict |-> task_dict, record_dir |-> dir, episode |-> 0,
     task_id |-> task_id, is_generated |-> (task_id # None)]

\* (mutant) the session is stored under the generated id even when the
\* request names an agent_id
PutSession_GeneratedKey(reg, a, s) ==
    LET k == IF Cardinality(DOMAIN reg) \in AgentIds THEN Cardinality(DOMAIN reg) ELSE a
    IN [x \in DOMAIN reg \cup {k} |-> IF x = k THEN s ELSE reg[x]]

\* active_simulations[agent_id] = {...}
PutSession(reg, a, s) == [x \in DOMAIN reg \cup {a} |-> IF x = a THEN s ELSE reg[x]]

\* (mutant) close_task without the `del`
RemoveSession_NoDel(reg, a) == reg

\* del active_simulations[agent_id]
RemoveSession(reg, a) == [x \in DOMAIN reg \ {a} |-> reg[x]]

\* (mutant) reset_task without the increment
EpisodeAfterReset_Same(ep) == ep

\* sim_state["episode"] += 1
EpisodeAfterReset(ep) == ep + 1

Resp(op, a, status) == [op |-> op, agent_id |-> a, status |-> status]

\* (mutant) the membership check sits inside the try, so that its
\* HTTPException is turned into a 500 by `except Exception`
SessionNotFound_Swallowed(op, a) == Resp(op, a, 500)

\* raise HTTPException(status_code=404, detail="Agent session not found ...")
SessionNotFound(op, a) == Resp(op, a, 404)

\* one call on a simulator handle, with whether it returned normally
Call(h, name, ok) == [sim |-> h, call |-> name, ok |-> ok]

\* --------------------------------------------------------- event loop
\* Every handler is an `async def` without a suspending await, so the single
\* event loop of the server runs a handler from its first line to its return
\* before it picks up the next request.
\* (mutant) handlers dispatched to worker threads, as plain `def` routes are
LoopFree_ThreadPool == TRUE

LoopFree == in_progress = {}

Req(op, a) == [op |-> op, agent_id |-> a]

\* the bounds of the model, as guards on the requests that would exceed them
WithinBounds(req) ==
    /\ req.op \in {"init", "assign"} => Len(sims) < MaxSims
    /\ (req.op = "init" /\ req.agent_id = None) =>
           Cardinality(DOMAIN active_simulations) \in AgentIds
    /\ (req.op = "reset" /\ req.agent_id \in DOMAIN active_simulations) =>
           active_simulations[req.agent_id].episode < MaxEpisode
    /\ req.op \in {"generate", "assign"} =>
           Cardinality(DOMAIN generated_tasks) < MaxGenerated

\* the handler of a request can start now
CanStart(req) == LoopFree /\ WithinBounds(req)

\* the event loop starts the handler of a request
Start(req) ==
    /\ CanStart(req)
    /\ in_progress' = in_progress \cup {req}
    /\ response' = NoResp
    /\ sim_calls' = <<>>
    /\ UNCHANGED <<MINESTUDIO_AVAILABLE, active_simulations, generated_tasks,
                   sims, live, was_live>>

Finish(req) == in_progress' = in_progress \ {req}

\* ------------------------------------------------------------ init_task
\* Python truthiness of `commands` / `task_dict`
Truthy(x) == x # NoCommands

\* body of init_task, called by the HTTP route and by assign_task;
\* store is the generated-task store the call sees
InitBody(req_agent, task_name, difficulty, task_id, commands, task_dict, store) ==
    LET a == ResolveAgentId(req_agent)
        gen == task_id # None /\ task_id \in DOMAIN store
        provided == Truthy(commands) /\ task_dict # NoTaskDict
        cmds == IF gen THEN (IF Truthy(commands) THEN commands
                             ELSE store[task_id].custom_init_commands)
                ELSE IF provided THEN commands
                ELSE PredefinedCommands(task_name)
        td == IF gen THEN (IF task_dict # NoTaskDict THEN task_dict
                           ELSE [name |-> store[task_id].name, text |-> store[task_id].text])
              ELSE IF provided THEN task_dict
              ELSE PredefinedTaskDict(task_name)
        h == Len(sims) + 1
        dir == a
        unchangedReg == UNCHANGED <<active_simulations, sims, live>>
    IN  /\ was_live' = (a \in live)
        /\ UNCHANGED MINESTUDIO_AVAILABLE
        /\ IF ~MINESTUDIO_AVAILABLE
           THEN /\ response' = Resp("init", a, 503)
                /\ sim_calls' = <<>>
                /\ unchangedReg
           ELSE IF ~gen /\ ~provided /\ ~ConfigExists(difficulty, task_name)
           THEN \* the HTTPException(404) is raised inside the try and is
                \* caught by `except Exception`, which answers 500
                /\ response' = [op |-> "init", agent_id |-> a, status |-> 500,
                                cause |-> "config_not_found"]
                /\ sim_calls' = <<>>
                /\ unchangedReg
           ELSE \E outcome \in {"create_fail", "command_fail", "reset_fail", "ok"} :
                  CASE outcome = "create_fail" ->
                         /\ response' = Resp("init", a, 500)
                         /\ sim_calls' = <<>>
                         /\ unchangedReg
                    [] outcome = "command_fail" ->
                         /\ Truthy(cmds)
                         /\ sims' = Append(sims, [record_dir |-> dir, state |-> "open"])
                         /\ sim_calls' = <<Call(h, "execute_command", FALSE)>>
                         /\ response' = Resp("init", a, 500)
                         /\ UNCHANGED <<active_simulations, live>>
                    [] outcome = "reset_fail" ->
                         /\ sims' = Append(sims, [record_dir |-> dir, state |-> "open"])
                         /\ sim_calls' = [i \in 1 .. Len(cmds) |-> Call(h, "execute_command", TRUE)]
                                            \o <<Call(h, "reset", FALSE)>>
                         /\ response' = Resp("init", a, 500)
                         /\ UNCHANGED <<active_simulations, live>>
                    [] outcome = "ok" ->
                         /\ sims' = Append(sims, [record_dir |-> dir, state |-> "open"])
                         /\ sim_calls' = [i \in 1 .. Len(cmds) |-> Call(h, "execute_command", TRUE)]
                                            \o <<Call(h, "reset", TRUE)>>
                         /\ active_simulations' =
                              PutSession(active_simulations, a,
                                         NewSession(h, td, difficulty, dir, task_id))
                         /\ live' = live \cup {a}
                         /\ response' = Resp("init", a, 200)

\* POST /a2a/task/init
init_task(req) ==
    /\ req \in in_progress
    /\ req.op = "init"
    /\ \E task_name \in TaskNames, difficulty \in Difficulties,
          task_id \in {None} \cup TaskIds :
          InitBody(req.agent_id, task_name, difficulty, task_id, NoCommands, NoTaskDict,
                   generated_tasks)
    /\ Finish(req)
    /\ UNCHANGED generated_tasks

\* ------------------------------------------------------- execute_action
\* POST /a2a/action
execute_action(req) ==
    /\ req \in in_progress
    /\ req.op = "step"
    /\ Finish(req)
    /\ was_live' = (req.agent_id \in live)
    /\ UNCHANGED <<MINESTUDIO_AVAILABLE, active_simulations, generated_tasks,
                   sims, live>>
    /\ IF SessionAbsent(req.agent_id)
       THEN /\ response' = SessionNotFound("step", req.agent_id)
            /\ sim_calls' = <<>>
       ELSE \E ok \in BOOLEAN :
            /\ sim_calls' = <<Call(active_simulations[req.agent_id].sim, "step", ok)>>
            /\ response' = Resp("step", req.agent_id, IF ok THEN 200 ELSE 500)

\* ----------------------------------------------------------- reset_task
\* POST /a2a/task/reset
reset_task(req) ==
    /\ req \in in_progress
    /\ req.op = "reset"
    /\ Finish(req)
    /\ was_live' = (req.agent_id \in live)
    /\ UNCHANGED <<MINESTUDIO_AVAILABLE, generated_tasks, sims, live>>
    /\ IF SessionAbsent(req.agent_id)
       THEN /\ response' = SessionNotFound("reset", req.agent_id)
            /\ sim_calls' = <<>>
            /\ UNCHANGED active_simulations
       ELSE \E ok \in BOOLEAN :
            \* the episode counter is incremented before the handle is reset
            /\ active_simulations' =
                 [active_simulations EXCEPT ![req.agent_id].episode = EpisodeAfterReset(@)]
            /\ sim_calls' = <<Call(active_simulations[req.agent_id].sim, "reset", ok)>>
            /\ response' = Resp("reset", req.agent_id, IF ok THEN 200 ELSE 500)

\* ----------------------------------------------------------- close_task
\* the .mp4 files of a record_dir: every simulator that recorded into the
\* directory has left its recording there when it was closed
VideoFiles(handles, dir) ==
    {h \in DOMAIN handles : handles[h].record_dir = dir /\ handles[h].state = "closed"}

\* POST /a2a/task/close
close_task(req) ==
    /\ req \in in_progress
    /\ req.op = "close"
    /\ Finish(req)
    /\ was_live' = (req.agent_id \in live)
    /\ UNCHANGED <<MINESTUDIO_AVAILABLE, generated_tasks>>
    /\ IF SessionAbsent(req.agent_id)
       THEN /\ response' = SessionNotFound("close", req.agent_id)
            /\ sim_calls' = <<>>
            /\ UNCHANGED <<active_simulations, sims, live>>
       ELSE LET st == active_simulations[req.agent_id]
                h == st.sim
                dir == st.record_dir
            IN \E ok \in BOOLEAN :
               /\ sim_calls' = <<Call(h, "close", ok)>>
               /\ IF ~ok
                  THEN /\ response' = Resp("close", req.agent_id, 500)
                       /\ UNCHANGED <<active_simulations, sims, live>>
                  ELSE /\ sims' = [sims EXCEPT ![h].state = "closed"]
                       /\ active_simulations' = RemoveSession(active_simulations, req.agent_id)
                       /\ live' = live \ {req.agent_id}
                       /\ response' = [op |-> "close", agent_id |-> req.agent_id,
                                       status |-> 200,
                                       video_files |-> VideoFiles(sims', dir)]

\* -------------------------------------------------------- generate_task
\* names a generation can be asked for (explicit or sampled)
GenTaskNames == {"build a house"}
TaskTypes == {"atomic"}

\* `task_name.replace(' ', '_').lower()`
CleanName(name) == IF name = "build a house" THEN "build_a_house" ELSE name

\* outcomes of the single completion-service call of _generate_task_config
\* that the handlers are run with: the call raises, or the text lacks the
\* custom_init_commands marker, or it has marker, commands and description.
\* (A text with the marker alone is parsed by GenerateTaskConfig like a full
\* one, with no commands and the task name as description.)
CompletionOutcomes == {"service_error", "no_marker", "full"}

\* (mutant) a response without the marker gives a config without commands
GenerateTaskConfig_Partial(task_name, difficulty, task_type, completion) ==
    IF completion = "service_error" THEN GenerationFailed
    ELSE [text |-> IF completion = "full" THEN "generated description" ELSE task_name,
          custom_init_commands |-> IF completion = "full" THEN <<"cmd">> ELSE <<>>,
          name |-> CleanName(task_name),
          difficulty |-> difficulty,
          task_type |-> task_type]

\* _generate_task_config: parse of the completion text; GenerationFailed
\* stands for the raised HTTPException
GenerateTaskConfig(task_name, difficulty, task_type, completion) ==
    IF completion \in {"service_error", "no_marker"} THEN GenerationFailed
    ELSE [text |-> IF completion = "full" THEN "generated description" ELSE task_name,
          custom_init_commands |-> IF completion = "full" THEN <<"cmd">> ELSE <<>>,
          name |-> CleanName(task_name),
          difficulty |-> difficulty,
          task_type |-> task_type]

\* (mutant) the same id is drawn again
FreshTaskIds_Reused(store) == {1} \cap TaskIds

\* `task_id = str(uuid.uuid4())`: an id no entry of the store has (the ids 1, 2, ...
\* stand for the uuids in the order they are drawn)
FreshTaskIds(store) == {Cardinality(DOMAIN store) + 1} \cap TaskIds

\* the answer to a generation that failed: `except Exception` of
\* generate_task answers 500 for whatever was raised; the handler has made
\* its one call of _fetch_gpt4, whose outcome is kept for the properties
GenerationError(op, a, completion) ==
    [op |-> op, agent_id |-> a, status |-> 500,
     completion |-> completion, completion_calls |-> 1]

\* `generated_tasks[task_id] = config_dict`
PutTask(store, id, config) ==
    [x \in DOMAIN store \cup {id} |-> IF x = id THEN config ELSE store[x]]

\* POST /a2a/task/generate
generate_task(req) ==
    /\ req \in in_progress
    /\ req.op = "generate"
    /\ Finish(req)
    /\ sim_calls' = <<>>
    /\ UNCHANGED <<MINESTUDIO_AVAILABLE, active_simulations, sims, live, was_live>>
    /\ \E task_name \in GenTaskNames, difficulty \in Difficulties,
          task_type \in TaskTypes,
          completion \in CompletionOutcomes :
          LET config == GenerateTaskConfig(task_name, difficulty, task_type, completion)
          IN IF config = GenerationFailed
             THEN /\ response' = GenerationError("generate", None, completion)
                  /\ UNCHANGED generated_tasks
             ELSE \E id \in FreshTaskIds(generated_tasks) :
                  /\ generated_tasks' = PutTask(generated_tasks, id, config)
                  /\ response' = [op |-> "generate", agent_id |-> None,
                                  status |-> 200, task_id |-> id,
                                  completion |-> completion, completion_calls |-> 1]

\* ---------------------------------------------------------- assign_task
\* POST /a2a/task/assign
assign_task(req) ==
    /\ req \in in_progress
    /\ req.op = "assign"
    /\ Finish(req)
    /\ \E kind \in {"predefined", "generate", "neither"}, difficulty \in Difficulties :
         CASE kind = "predefined" ->
                \E task_name \in TaskNames :
                  IF ~ConfigExists(difficulty, task_name)
                  THEN \* raised inside the try, re-raised by `except HTTPException`
                       /\ response' = Resp("assign", req.agent_id, 404)
                       /\ sim_calls' = <<>>
                       /\ was_live' = (req.agent_id \in live)
                       /\ UNCHANGED <<MINESTUDIO_AVAILABLE, active_simulations,
                                      generated_tasks, sims, live>>
                  ELSE /\ InitBody(req.agent_id, PredefinedTaskDict(task_name).name,
                                   difficulty, None, PredefinedCommands(task_name),
                                   PredefinedTaskDict(task_name), generated_tasks)
                       /\ UNCHANGED generated_tasks
           [] kind = "generate" ->
                \E task_name \in GenTaskNames, task_type \in TaskTypes,
                   completion \in CompletionOutcomes :
                  LET config == GenerateTaskConfig(task_name, difficulty, task_type, completion)
                  IN IF config = GenerationFailed
                     THEN /\ response' = GenerationError("assign", req.agent_id, completion)
                          /\ sim_calls' = <<>>
                          /\ was_live' = (req.agent_id \in live)
                          /\ UNCHANGED <<MINESTUDIO_AVAILABLE, active_simulations,
                                         generated_tasks, sims, live>>
                     ELSE \E id \in FreshTaskIds(generated_tasks) :
                          LET store == PutTask(generated_tasks, id, config)
                          IN /\ generated_tasks' = store
                             /\ InitBody(req.agent_id, config.name, difficulty, id,
                                         config.custom_init_commands,
                                         [name |-> config.name, text |-> config.text],
                                         store)
           [] kind = "neither" ->
                /\ response' = Resp("assign", req.agent_id, 400)
                /\ sim_calls' = <<>>
                /\ was_live' = (req.agent_id \in live)
                /\ UNCHANGED <<MINESTUDIO_AVAILABLE, active_simulations,
                               generated_tasks, sims, live>>

\* --------------------------------------------------- list_active_agents
\* GET /a2a/agents
list_active_agents(req) ==
    /\ req \in in_progress
    /\ req.op = "list"
    /\ Finish(req)
    /\ sim_calls' = <<>>
    /\ response' = [op |-> "list", agent_id |-> None, status |-> 200,
                    active_agents |-> DOMAIN active_simulations]
    /\ UNCHANGED <<MINESTUDIO_AVAILABLE, active_simulations, generated_tasks,
                   sims, live, was_live>>

\* ====================================================================
\* Readiness polling: utils/a2a_utils.py wait_agent_ready
\* ====================================================================
\* outcomes of one `await get_agent_card(url)`
PollOutcomes == {"card", "none", "raise"}

\* (mutant) `while retry_cnt <= timeout`
LoopContinues_OffByOne(cnt, timeout) == cnt <= timeout

\* `while retry_cnt < timeout`
LoopContinues(cnt, timeout) == cnt < timeout

\* (mutant) no `except Exception` around the poll
AfterPoll_Propagate(outcome) ==
    IF outcome = "card" THEN [pc |-> "done", result |-> "True"]
    ELSE IF outcome = "raise" THEN [pc |-> "done", result |-> "raised"]
    ELSE [pc |-> "sleep", result |-> "None"]

\* what follows a poll: `return True` for a card, otherwise (no card, or an
\* exception caught by `except Exception`) the `await asyncio.sleep(1)`
AfterPoll(outcome) ==
    IF outcome = "card" THEN [pc |-> "done", result |-> "True"]
    ELSE [pc |-> "sleep", result |-> "None"]

\* the call wait_agent_ready(url, timeout): `retry_cnt = 0`
WaitCall(timeout) ==
    /\ w_timeout' = timeout /\ retry_cnt' = 0 /\ w_pc' = "test"
    /\ w_result' = "None" /\ polls' = 0 /\ sleeps' = 0
    /\ failed_polls' = 0 /\ w_last' = "None"

\* the loop test, `retry_cnt += 1` on entry, `return False` on exit
WaitTest ==
    /\ w_pc = "test"
    /\ IF LoopContinues(retry_cnt, w_timeout)
       THEN /\ retry_cnt' = retry_cnt + 1
            /\ w_pc' = "poll"
            /\ UNCHANGED w_result
       ELSE /\ w_pc' = "done"
            /\ w_result' = "False"
            /\ UNCHANGED retry_cnt
    /\ UNCHANGED <<w_timeout, polls, sleeps, failed_polls, w_last>>

\* one poll of the agent card
WaitPoll ==
    /\ w_pc = "poll"
    /\ \E outcome \in PollOutcomes :
         /\ polls' = polls + 1
         /\ w_last' = outcome
         /\ failed_polls' = IF outcome = "card" THEN failed_polls ELSE failed_polls + 1
         /\ w_pc' = AfterPoll(outcome).pc
         /\ w_result' = AfterPoll(outcome).result
    /\ UNCHANGED <<w_timeout, retry_cnt, sleeps>>

\* `await asyncio.sleep(1)`
WaitSleep ==
    /\ w_pc = "sleep"
    /\ sleeps' = sleeps + 1
    /\ w_pc' = "test"
    /\ UNCHANGED <<w_timeout, retry_cnt, w_result, polls, failed_polls, w_last>>

\* ====================================================================
\* Evaluator: green_agent/agent.py MinecraftGreenAgentExecutor.execute
\* ====================================================================
\* What the performer's reply can be: no usable reply (transport error,
\* timeout, JSON-RPC error: the asserts on the response type fail), or a
\* message with `parts` text parts whose text has no video_artifact tag
\* or has one with the given payload; for a JSON object payload, what its
\* video_base64 key holds.
Replies ==
    {[kind |-> "failure", parts |-> 0, artifact |-> "none", video_base64 |-> "absent"]}
      \cup [kind : {"message"}, parts : {0, 2}, artifact : {"none", "object"},
           video_base64 : {"absent"}]
      \cup [kind : {"message"}, parts : {1},
           artifact : {"none", "not_json", "json_array"}, video_base64 : {"absent"}]
      \cup [kind : {"message"}, parts : {1}, artifact : {"object"},
           video_base64 : {"absent", "null", "empty", "bytes", "bad_padding"}]

\* (mutant) the first text part is taken without the assert on the count
ExactlyOneTextPart_AtLeastOne(reply) == reply.kind = "message" /\ reply.parts >= 1

\* the asserts of request_white_agent_evaluation on the response:
\* a success response carrying a Message with `len(text_parts) == 1`
ExactlyOneTextPart(reply) == reply.kind = "message" /\ reply.parts = 1

\* `'video_artifact' not in tags` after parse_tags(white_response)
HasArtifactTag(reply) == reply.artifact # "none"

\* json.loads(tags['video_artifact']) returns (does not raise)
JsonLoads(reply) == reply.artifact \in {"json_array", "object"}

\* `artifact_data.get('video_path')` works: the decoded value is a dict
IsJsonObject(reply) == reply.artifact = "object"

\* `'video_base64' in artifact_data`
HasVideoBase64Key(reply) == reply.video_base64 # "absent"

\* base64.b64decode(artifact_data['video_base64']) returns (None raises
\* TypeError, wrong padding raises binascii.Error)
B64Decodes(reply) == reply.video_base64 \in {"empty", "bytes"}

\* await event_queue.enqueue_event(new_agent_text_message(...))
Enqueue(kind) == events' = Append(events, kind)

\* execute up to the dispatch: parse_tags, the checks of the tags, the
\* lookup of the task config and of the criteria file
GreenParse ==
    /\ g_pc = "start"
    /\ IF g_in.max_steps = "not_int"
       THEN \* int(...) raises before the try: execute ends with the exception
            /\ g_pc' = "raised"
            /\ UNCHANGED events
       ELSE IF ~g_in.white_agent_url \/ ~g_in.task_name
       THEN /\ Enqueue("error_missing_tag") /\ g_pc' = "done"
       ELSE \E config_found \in BOOLEAN, criteria_found \in BOOLEAN :
              IF ~config_found
              THEN /\ Enqueue("error_no_config") /\ g_pc' = "done"
              ELSE IF ~criteria_found
              THEN /\ Enqueue("error_no_criteria") /\ g_pc' = "done"
              ELSE /\ Enqueue("requesting") /\ g_pc' = "request"
    /\ UNCHANGED <<g_in, white_requests, white_response, artifact_data,
                   files_written, scoring_calls, scored_path>>

\* request_white_agent_evaluation up to send_message: the task config is
\* read, the performer's card is fetched, the request is posted
GreenSendRequest ==
    /\ g_pc = "request"
    /\ \E outcome \in {"config_unreadable", "no_card", "sent"} :
         IF outcome = "sent"
         THEN /\ white_requests' = white_requests + 1
              /\ g_pc' = "awaiting"
              /\ UNCHANGED events
         ELSE /\ Enqueue("error_assessment") /\ g_pc' = "done"
              /\ UNCHANGED white_requests
    /\ UNCHANGED <<g_in, white_response, artifact_data, files_written, scoring_calls, scored_path>>

\* the reply arrives: the rest of request_white_agent_evaluation and
\* execute up to the call of the scoring service
GreenReceive ==
    /\ g_pc = "awaiting"
    /\ \E reply \in Replies :
         /\ white_response' = reply
         /\ IF /\ ExactlyOneTextPart(reply) /\ HasArtifactTag(reply)
               /\ JsonLoads(reply) /\ IsJsonObject(reply)
               /\ (HasVideoBase64Key(reply) => B64Decodes(reply))
            THEN /\ artifact_data' = [video_base64 |-> reply.video_base64]
                 /\ files_written' = IF HasVideoBase64Key(reply)
                                      THEN files_written + 1 ELSE files_written
                 /\ Enqueue("evaluating")
                 /\ g_pc' = "scoring"
            ELSE /\ artifact_data' = IF /\ ExactlyOneTextPart(reply) /\ HasArtifactTag(reply)
                                         /\ JsonLoads(reply)
                                      THEN [video_base64 |-> reply.video_base64]
                                      ELSE artifact_data
                 /\ Enqueue("error_assessment")
                 /\ g_pc' = "done"
                 /\ UNCHANGED files_written
    /\ UNCHANGED <<g_in, white_requests, scoring_calls, scored_path>>

\* `video_path = artifact_data.get('video_path')`, replaced by the path of the
\* file written when the artifact has the key video_base64
VideoPath(artifact) ==
    IF artifact.video_base64 # "absent" THEN "written_file" ELSE "artifact_video_path"

\* evaluate_video_with_vlm(task_name, video_path, ...) and the result message
GreenScore ==
    /\ g_pc = "scoring"
    /\ scoring_calls' = scoring_calls + 1
    /\ scored_path' = VideoPath(artifact_data)
    /\ \E ok \in BOOLEAN :
         Enqueue(IF ok THEN "result" ELSE "error_assessment")
    /\ g_pc' = "done"
    /\ UNCHANGED <<g_in, white_requests, white_response, artifact_data, files_written>>

\* ====================================================================
\* Launcher: launcher.py launch_evaluation
\* ====================================================================
\* `timeout=30` of both wait_agent_ready calls
LauncherReadyTimeout == 30

\* the tags of the assessment request launch_evaluation builds
LauncherRequest ==
    [white_agent_url |-> TRUE, task_name |-> TRUE, difficulty |-> "simple",
     max_steps |-> "int"]

\* (mutant) the result of wait_agent_ready is ignored
IsReady_Ignored(result) == TRUE

\* `if not await wait_agent_ready(...)`
IsReady(result) == result = "True"

greenVars == <<g_pc, g_in, events, white_requests, white_response,
               artifact_data, files_written, scoring_calls, scored_path>>

\* p_green.start() and the call of wait_agent_ready(green_url, timeout=30)
LaunchStartGreen ==
    /\ l_pc = "start"
    /\ procs' = [procs EXCEPT !["green"] = "running"]
    /\ WaitCall(LauncherReadyTimeout)
    /\ l_pc' = "wait_green"
    /\ UNCHANGED <<greenVars, l_outcome, ready>>

\* wait_agent_ready(green_url) has returned
LaunchGreenReady ==
    /\ l_pc = "wait_green" /\ w_pc = "done"
    /\ ready' = [ready EXCEPT !["green"] = w_result]
    /\ IF IsReady(w_result)
       THEN /\ procs' = [procs EXCEPT !["white"] = "running"]
            /\ WaitCall(LauncherReadyTimeout)
            /\ l_pc' = "wait_white"
            /\ UNCHANGED l_outcome
       ELSE \* p_green.terminate(); return
            /\ procs' = [procs EXCEPT !["green"] = "terminated"]
            /\ l_outcome' = "green_unready"
            /\ l_pc' = "done"
            /\ UNCHANGED waitVars
    /\ UNCHANGED greenVars

\* wait_agent_ready(white_url) has returned
LaunchWhiteReady ==
    /\ l_pc = "wait_white" /\ w_pc = "done"
    /\ ready' = [ready EXCEPT !["white"] = w_result]
    /\ IF IsReady(w_result)
       THEN /\ l_pc' = "send"
            /\ UNCHANGED <<procs, l_outcome>>
       ELSE \* p_green.terminate(); p_white.terminate(); return
            /\ procs' = [p \in {"green", "white"} |-> "terminated"]
            /\ l_outcome' = "white_unready"
            /\ l_pc' = "done"
    /\ UNCHANGED <<waitVars, greenVars>>

\* the join of the finally block: the processes end, whatever they were doing
Killed(pc) == IF pc \in {"idle", "done", "raised"} THEN pc ELSE "killed"

\* send_message(green_url, assessment_request): the request reaches the
\* evaluator, or the call raises and the finally block runs
LaunchSend ==
    /\ l_pc = "send"
    /\ \E sent \in BOOLEAN :
         IF sent
         THEN /\ g_pc' = "start"
              /\ g_in' = LauncherRequest
              /\ l_pc' = "await_response"
              /\ UNCHANGED <<procs, l_outcome>>
         ELSE /\ l_outcome' = "error"
              /\ procs' = [p \in {"green", "white"} |-> "joined"]
              /\ l_pc' = "done"
              /\ UNCHANGED <<g_pc, g_in>>
    /\ UNCHANGED <<events, white_requests, white_response, artifact_data,
                   files_written, scoring_calls, scored_path, waitVars, ready>>

\* the response of the evaluator arrives, or the wait ends with an
\* exception (timeout, error response); then the finally block:
\* terminate() and join() of both processes
LaunchReceive ==
    /\ l_pc = "await_response"
    /\ \/ g_pc = "done" /\ l_outcome' = "assessed"
       \/ l_outcome' = "error"
    /\ g_pc' = Killed(g_pc)
    /\ procs' = [p \in {"green", "white"} |-> "joined"]
    /\ l_pc' = "done"
    /\ UNCHANGED <<g_in, events, white_requests, white_response, artifact_data,
                   files_written, scoring_calls, scored_path, waitVars, ready>>

\* ====================================================================
\* Launcher: launcher.py launch_batch_evaluation
\* ====================================================================
\* `for i, task_name in enumerate(task_names, 1)`: another task follows
BatchContinues(i, n, outcome) == i < n

\* launch_evaluation has returned and another task follows:
\* `await asyncio.sleep(5)`, then launch_evaluation(task_name=...) anew,
\* with new Process objects and new agent processes
BatchNextTask ==
    /\ b_i >= 1 /\ l_pc = "done" /\ batch_result = "pending"
    /\ BatchContinues(b_i, task_count, l_outcome)
    /\ outcomes' = Append(outcomes, l_outcome)
    /\ prev_procs' = procs
    /\ b_i' = b_i + 1
    /\ l_pc' = "start" /\ l_outcome' = "None"
    /\ procs' = [p \in {"green", "white"} |-> "none"]
    /\ ready' = [p \in {"green", "white"} |-> "None"]
    /\ g_pc' = "idle" /\ g_in' = NoTags /\ events' = <<>>
    /\ white_requests' = 0 /\ white_response' = NoReply
    /\ artifact_data' = NoArtifact /\ files_written' = 0 /\ scoring_calls' = 0 /\ scored_path' = "None"
    /\ UNCHANGED <<task_count, batch_result, waitVars>>

\* launch_evaluation has returned and no task follows: the closing prints,
\* and the function ends without a return statement
BatchEnd ==
    /\ b_i >= 1 /\ l_pc = "done" /\ batch_result = "pending"
    /\ ~BatchContinues(b_i, task_count, l_outcome)
    /\ outcomes' = Append(outcomes, l_outcome)
    /\ batch_result' = "None"
    /\ UNCHANGED <<task_count, b_i, prev_procs, runVars, waitVars>>

\* ====================================================================
\* Score extraction: a2a_server.py evaluate_video and
\* green_agent/agent.py evaluate_video_with_vlm
\* ====================================================================
\* An assessment text is a sequence of tokens: the dash and space that open
\* a list item, a metric name with the colon and space after it, a digit,
\* a character that is none of these, the line feed.  Every colon of these
\* texts is the one after a metric name.
Metrics == <<"Task Progress", "Action Control">>
MetricNames == {Metrics[k] : k \in DOMAIN Metrics}
WithColon == [m \in MetricNames |->
                 IF m = "Task Progress" THEN "Task Progress: " ELSE "Action Control: "]
Dash == "- "
Digit == [d \in {"7", "4"} |-> IF d = "7" THEN 7 ELSE 4]
Slash == "/"
LineFeed == "\n"

ColonTokens == {WithColon[m] : m \in MetricNames}
ScoreTokens == {Dash, Slash, LineFeed} \cup ColonTokens \cup DOMAIN Digit
ScoreTexts == UNION {[1 .. n -> ScoreTokens] : n \in 0 .. MaxScoreLen}

NoScore == [none |-> TRUE]
NoNumber == -1

\* the metric whose name a colon token holds
NameOf(tok) == CHOOSE m \in MetricNames : WithColon[m] = tok

RECURSIVE SplitLines(_)
\* text.split('\n')
SplitLines(text) ==
    LET feeds == {i \in DOMAIN text : text[i] = LineFeed}
    IN IF feeds = {} THEN <<text>>
       ELSE LET i == Least(feeds)
            IN <<SubSeq(text, 1, i - 1)>> \o SplitLines(SubSeq(text, i + 1, Len(text)))

RECURSIVE DigitsValue(_, _)
\* the integer a run of digits writes
DigitsValue(run, acc) ==
    IF run = <<>> THEN acc ELSE DigitsValue(Tail(run), acc * 10 + Digit[Head(run)])

\* re.findall(r'\d+', s)[0]: the first run of digits of s, NoNumber if none
FirstNumber(s) ==
    LET starts == {i \in DOMAIN s : s[i] \in DOMAIN Digit}
    IN IF starts = {} THEN NoNumber
       ELSE LET i == Least(starts)
                stops == {j \in i .. Len(s) :
                            j = Len(s) \/ s[j + 1] \notin DOMAIN Digit}
            IN DigitsValue(SubSeq(s, i, Least(stops)), 0)

\* line.split(':')[-1]: what follows the last colon of the line
AfterLastColon(line) ==
    LET colons == {i \in DOMAIN line : line[i] \in ColonTokens}
        last == CHOOSE i \in colons : \A j \in colons : j <= i
    IN SubSeq(line, last + 1, Len(line))

Put(dict, key, value) ==
    [k \in DOMAIN dict \cup {key} |-> IF k = key THEN value ELSE dict[k]]

RECURSIVE ServerLine(_, _, _)
\* evaluate_video, the loop over the metrics for one line, from metric k on
ServerLine(dict, line, k) ==
    IF k > Len(Metrics) THEN dict
    ELSE LET metric == Metrics[k]
             found == \E i \in DOMAIN line : line[i] = WithColon[metric]
             number == IF found THEN FirstNumber(AfterLastColon(line)) ELSE NoNumber
         IN ServerLine(IF number # NoNumber THEN Put(dict, metric, number) ELSE dict,
                       line, k + 1)

RECURSIVE ServerLines(_, _)
\* evaluate_video, the loop over the lines
ServerLines(dict, lines) ==
    IF lines = <<>> THEN dict
    ELSE ServerLines(ServerLine(dict, Head(lines), 1), Tail(lines))

RECURSIVE SumOf(_)
\* sum(scores.values())
SumOf(dict) ==
    IF DOMAIN dict = {} THEN 0
    ELSE LET k == CHOOSE k \in DOMAIN dict : TRUE
         IN dict[k] + SumOf([j \in DOMAIN dict \ {k} |-> dict[j]])

\* (mutant) the mean is taken over all expected metrics
ScoreCount_Expected(dict) == Len(Metrics)

\* len(scores)
ScoreCount(dict) == Cardinality(DOMAIN dict)

RECURSIVE Gcd(_, _)
Gcd(a, b) == IF b = 0 THEN a ELSE Gcd(b, a % b)

\* the quotient a / b as a fraction in lowest terms
Quotient(a, b) == [num |-> a \div Gcd(a, b), den |-> b \div Gcd(a, b)]

\* `if scores: overall_score = sum(scores.values()) / len(scores)`
OverallScore(dict) ==
    IF DOMAIN dict # {} THEN Quotient(SumOf(dict), ScoreCount(dict)) ELSE NoScore

\* POST /a2a/evaluate: the video is stored, frames are taken, the
\* assessment is made and its text parsed
evaluate_video ==
    /\ ev_status = 0 /\ vlm_pc = "idle"
    /\ \/ \E status \in {400, 404, 500} :
            \* no video given or no frames (400), criteria not found: result
            \* is None (404), an exception of the assessment (500)
            /\ ev_status' = status
            /\ UNCHANGED <<ev_result, scores, overall_score>>
       \/ \E text \in ScoreTexts :
            LET dict == ServerLines(<<>>, SplitLines(text))
            IN /\ ev_result' = text
               /\ scores' = dict
               /\ overall_score' = OverallScore(dict)
               /\ ev_status' = 200
    /\ UNCHANGED <<vlm_result, vlm_scores, vlm_pc>>

\* result.strip(): line feeds at both ends go (the space a final item dash
\* or metric colon ends with goes too, which changes nothing in the scores)
RECURSIVE StripFeeds(_)
StripFeeds(text) ==
    IF text # <<>> /\ Head(text) = LineFeed THEN StripFeeds(Tail(text))
    ELSE IF text # <<>> /\ text[Len(text)] = LineFeed
    THEN StripFeeds(SubSeq(text, 1, Len(text) - 1))
    ELSE text

RECURSIVE StripDashes(_)
\* parts[0].strip('- '), for a part that ends with a metric name
StripDashes(part) ==
    IF part # <<>> /\ Head(part) = Dash THEN StripDashes(Tail(part)) ELSE part

\* int(value) returns: value is a run of digits
IsInt(value) == value # <<>> /\ \A i \in DOMAIN value : value[i] \in DOMAIN Digit

\* evaluate_video_with_vlm, the body of the loop for one line
GreenLine(dict, line) ==
    LET colons == {i \in DOMAIN line : line[i] \in ColonTokens}
    IN IF line # <<>> /\ line[1] = Dash /\ Cardinality(colons) = 1
       THEN LET i == CHOOSE i \in colons : TRUE
                key == StripDashes(SubSeq(line, 1, i - 1)) \o <<NameOf(line[i])>>
                value == SubSeq(line, i + 1, Len(line))
            IN IF IsInt(value) THEN Put(dict, key, DigitsValue(value, 0)) ELSE dict
       ELSE dict

RECURSIVE GreenLines(_, _)
\* evaluate_video_with_vlm, the loop over the lines
GreenLines(dict, lines) ==
    IF lines = <<>> THEN dict
    ELSE GreenLines(GreenLine(dict, Head(lines)), Tail(lines))

\* evaluate_video_with_vlm: frames are taken, the assessment is made and
\* its text parsed
evaluate_video_with_vlm ==
    /\ vlm_pc = "idle" /\ ev_status = 0
    /\ \/ \* process_video or assess_video raises
          /\ vlm_pc' = "raised"
          /\ UNCHANGED <<vlm_result, vlm_scores>>
       \/ \E text \in ScoreTexts :
            /\ vlm_result' = text
            /\ vlm_scores' = IF text # <<>>
                             THEN GreenLines(<<>>, SplitLines(StripFeeds(text)))
                             ELSE <<>>
            /\ vlm_pc' = "returned"
    /\ UNCHANGED <<ev_result, scores, overall_score, ev_status>>

\* ====================================================================
\* Compositional task names: a2a_server.py _process_compositional_task_list
\* ====================================================================
\* lines of the atomic task list
AtomicTasks == {"mine stone", "find a cave", "plant a tree"}
TaskLists == UNION {[1 .. n -> AtomicTasks] : n \in 0 .. MaxListLen}

\* (mutant) two names are joined like three
PairConnectors_Both == {" and ", " or "}

\* random.choice([' or '])
PairConnectors == {" or "}

\* random.choice([' and ', ' or '])
TripleConnectors == {" and ", " or "}

\* the string concatenations of _process_compositional_task_list, kept as
\* the sequence of the pieces; an empty list raises IndexError
ProcessCompositionalTaskList ==
    /\ c_pc = "call"
    /\ IF Len(task_list) = 3
       THEN \E connector1 \in TripleConnectors, connector2 \in TripleConnectors :
              /\ c_result' = <<task_list[1], connector1, task_list[2], connector2,
                               task_list[3]>>
              /\ c_pc' = "returned"
       ELSE IF Len(task_list) = 2
       THEN \E connector \in PairConnectors :
              /\ c_result' = <<task_list[1], connector, task_list[2]>>
              /\ c_pc' = "returned"
       ELSE IF Len(task_list) >= 1
       THEN c_result' = <<task_list[1]>> /\ c_pc' = "returned"
       ELSE c_pc' = "raised" /\ UNCHANGED c_result
    /\ UNCHANGED task_list

\* ====================================================================
\* Task request: green_agent/agent.py request_white_agent_evaluation and
\* white_agent/agent.py MinecraftWhiteAgentExecutor.execute
\* ====================================================================
\* A message is a sequence of lines; a line is the text before its first
\* colon (k) and the text after it (v), or a task_request tag.
Line(k, v) == [k |-> k, v |-> v]
StartTagLine == Line("start_tag", "task_request")
EndTagLine == Line("end_tag", "task_request")
Filler == Line("text", "")

NoValue == "None"
NoSent == [none |-> TRUE]

\* int(s), for the numerals of the model
IntOf == [s \in {"0", "7", "12000"} |-> IF s = "0" THEN 0 ELSE IF s = "7" THEN 7 ELSE 12000]
\* int(s) returns
IsNumeral(s) == s \in DOMAIN IntOf
\* the numeral an f-string writes for an int
Str(n) == CHOOSE s \in DOMAIN IntOf : IntOf[s] = n

\* what the evaluator can be asked to send
ReqNames == {"collect_wood", "mine_stone"}
ReqDifficulties == {"simple", "hard"}
ReqSteps == {0, 7}
ReqPaths == {"simple/collect_wood.yaml", "hard/mine_stone.yaml"}

\* lines a task description (the `text` of a task config) can have
DescLines ==
    {Line("text", "x"), Line("Task Name", "other"), Line("Difficulty", "other"),
     Line("Max Steps", "many"), Line("Task Configuration Path", "other"), EndTagLine}
Descriptions == UNION {[1 .. n -> DescLines] : n \in 0 .. MaxDescLines}

\* `Description: {task_description}`: the first line of the description
\* follows 'Description: ' on the same line, the others are lines of their own
DescriptionLines(desc) ==
    IF desc = <<>> THEN <<Line("Description", "")>>
    ELSE (IF desc[1] = EndTagLine THEN <<Line("Description", ""), EndTagLine>>
          ELSE <<Line("Description", desc[1].v)>>) \o Tail(desc)

\* the f-string of request_white_agent_evaluation
RequestMessage(task_name, difficulty, desc, steps, task_config_path) ==
    <<StartTagLine, Filler, Line("Task Name", task_name), Line("Difficulty", difficulty)>>
      \o DescriptionLines(desc)
      \o <<Line("Max Steps", Str(steps)), Filler,
           Line("Task Configuration Path", task_config_path), Filler, EndTagLine>>

\* request_white_agent_evaluation up to send_message
GreenEncodeRequest ==
    /\ r_pc = "idle"
    /\ \E task_name \in ReqNames, difficulty \in ReqDifficulties, steps \in ReqSteps,
          task_config_path \in ReqPaths, desc \in Descriptions :
         /\ r_in' = RequestMessage(task_name, difficulty, desc, steps, task_config_path)
         /\ r_sent' = [task_name |-> task_name, difficulty |-> difficulty,
                       max_steps |-> steps, task_config_path |-> task_config_path,
                       description |-> desc]
    /\ r_pc' = "received"
    /\ UNCHANGED <<r_parsed, r_events>>

\* messages of other clients of the performer
ClientLines ==
    {StartTagLine, EndTagLine, Line("Task Name", "collect_wood"),
     Line("Max Steps", "many"), Line("Task Configuration Path", "simple/collect_wood.yaml")}
ClientMessages == UNION {[1 .. n -> ClientLines] : n \in 0 .. MaxMsgLines}

\* a message of any client reaches the performer
ClientRequest ==
    /\ r_pc = "idle"
    /\ \E message \in ClientMessages : r_in' = message
    /\ r_pc' = "received"
    /\ UNCHANGED <<r_sent, r_parsed, r_events>>

\* the first <task_request> ... </task_request> of the message from pos on,
\* as <<first line, last line>> of what is between; <<>> when there is none
NextRequest(message, pos) ==
    LET starts == {i \in pos .. Len(message) :
                     /\ message[i] = StartTagLine
                     /\ \E j \in i + 1 .. Len(message) : message[j] = EndTagLine}
    IN IF starts = {} THEN <<>>
       ELSE LET i == Least(starts)
            IN <<i + 1, Least({j \in i + 1 .. Len(message) : message[j] = EndTagLine}) - 1>>

RECURSIVE LastRequest(_, _, _)
\* parse_tags(user_input)['task_request']: the last pair of the message wins
LastRequest(message, pos, found) ==
    LET m == NextRequest(message, pos)
    IN IF m = <<>> THEN found ELSE LastRequest(message, m[2] + 2, m)

\* `'task_request' in tags`
HasRequest(message) == LastRequest(message, 1, <<>>) # <<>>

\* tags['task_request'].split('\n')
RequestLines(message) ==
    LET m == LastRequest(message, 1, <<>>) IN SubSeq(message, m[1], m[2])

\* the values of execute before the loop over the lines
RequestDefaults ==
    [task_name |-> NoValue, difficulty |-> "simple", max_steps |-> 12000,
     task_config_path |-> NoValue, raised |-> FALSE]

RECURSIVE ParseLines(_, _)
\* the loop of execute over the lines of the request; int() of a Max Steps
\* that is no numeral raises and ends the loop
ParseLines(lines, p) ==
    IF lines = <<>> THEN p
    ELSE LET line == Head(lines)
         IN IF line.k = "Task Name"
            THEN ParseLines(Tail(lines), [p EXCEPT !.task_name = line.v])
            ELSE IF line.k = "Difficulty"
            THEN ParseLines(Tail(lines), [p EXCEPT !.difficulty = line.v])
            ELSE IF line.k = "Max Steps"
            THEN IF IsNumeral(line.v)
                 THEN ParseLines(Tail(lines), [p EXCEPT !.max_steps = IntOf[line.v]])
                 ELSE [p EXCEPT !.raised = TRUE]
            ELSE IF line.k = "Task Configuration Path"
            THEN ParseLines(Tail(lines), [p EXCEPT !.task_config_path = line.v])
            ELSE ParseLines(Tail(lines), p)

\* `not task_name or not task_config_path`
MissingValue(p) ==
    p.task_name \in {NoValue, ""} \/ p.task_config_path \in {NoValue, ""}

\* the exception of int() leaves execute: nothing is enqueued
AfterRaise == [pc |-> "raised", events |-> <<>>]

\* execute up to the try block: parse_tags, the loop over the lines, the
\* check of the values
WhiteParseRequest ==
    /\ r_pc = "received"
    /\ IF ~HasRequest(r_in)
       THEN /\ r_events' = Append(r_events, "error_no_task_request")
            /\ r_pc' = "done"
            /\ UNCHANGED r_parsed
       ELSE LET p == ParseLines(RequestLines(r_in), RequestDefaults)
            IN /\ r_parsed' = p
               /\ IF p.raised
                  THEN r_pc' = AfterRaise.pc /\ r_events' = r_events \o AfterRaise.events
                  ELSE IF MissingValue(p)
                  THEN r_pc' = "done" /\ r_events' = Append(r_events, "error_missing_value")
                  ELSE r_pc' = "execute" /\ UNCHANGED r_events
    /\ UNCHANGED <<r_in, r_sent>>

\* the try block of execute: the task config is loaded, the task is run with
\* MineStudio or by the mock (also after a failure of MineStudio), the video
\* is read and the reply with the video_artifact tag is enqueued; any
\* exception becomes an error message
WhiteExecuteTask ==
    /\ r_pc = "execute"
    /\ \E outcome \in {"config_unreadable", "minestudio", "mock_after_failure", "mock",
                       "video_unreadable"} :
         r_events' = Append(r_events,
                            IF outcome \in {"config_unreadable", "video_unreadable"}
                            THEN "error_executing" ELSE "artifact")
    /\ r_pc' = "done"
    /\ UNCHANGED <<r_in, r_sent, r_parsed>>

\* ====================================================================
\* Tag codec: utils/a2a_utils.py parse_tags
\* ====================================================================
\* A text is a sequence of tokens: a start tag <n> or an end tag </n> for a
\* word n, a whitespace character, or any other character. The pattern
\* `<(\w+)>` matches exactly at a start tag and `</\1>` exactly at the end
\* tag of the same word.
TagNames == {"a", "b"}
StartTag == [a |-> "<a>", b |-> "<b>"]
EndTag == [a |-> "</a>", b |-> "</b>"]
Whitespace == " "
Tokens == {StartTag[n] : n \in TagNames} \cup {EndTag[n] : n \in TagNames}
             \cup {Whitespace, "x"}
Texts == UNION {[1 .. n -> Tokens] : n \in 0 .. MaxTextLen}

IsStartTag(tok) == \E n \in TagNames : tok = StartTag[n]
IsEndTag(tok) == \E n \in TagNames : tok = EndTag[n]

\* group 1, the word of the start tag at position i
NameAt(text, i) == CHOOSE n \in TagNames : text[i] = StartTag[n]

\* the positions after i where `</\1>` matches
EndsFor(text, i) == {j \in i + 1 .. Len(text) : text[j] = EndTag[NameAt(text, i)]}

\* the pattern `<(\w+)>(.*?)</\1>` (DOTALL) matches starting at position i
MatchesAt(text, i) == IsStartTag(text[i]) /\ EndsFor(text, i) # {}

\* the non-greedy `(.*?)`: the match ends at the nearest such end tag
MatchEnd(text, i) == Least(EndsFor(text, i))

\* (mutant) the scan resumes right after the start tag, so that matches overlap
ResumeAt_Overlapping(i, j) == i + 1

\* re.findall returns non-overlapping matches: the scan resumes after the match
ResumeAt(i, j) == j + 1

\* re.findall(pattern, text, re.DOTALL) from position pos on: the list of
\* (tag_name, content) pairs, leftmost match first
RECURSIVE FindAll(_, _)
FindAll(text, pos) ==
    LET starts == {i \in pos .. Len(text) : MatchesAt(text, i)}
    IN IF starts = {} THEN <<>>
       ELSE LET i == Least(starts)
                j == MatchEnd(text, i)
            IN <<(<<NameAt(text, i), SubSeq(text, i + 1, j - 1)>>)>>
                 \o FindAll(text, ResumeAt(i, j))

RECURSIVE LStrip(_)
LStrip(s) == IF s # <<>> /\ Head(s) = Whitespace THEN LStrip(Tail(s)) ELSE s

RECURSIVE RStrip(_)
RStrip(s) ==
    IF s # <<>> /\ s[Len(s)] = Whitespace THEN RStrip(SubSeq(s, 1, Len(s) - 1)) ELSE s

\* (mutant) the content is stored as matched
Strip_None(s) == s

\* content.strip()
Strip(s) == RStrip(LStrip(s))

\* (mutant) an entry that is already there is kept
PutTag_KeepFirst(result, tag_name, content) ==
    [x \in DOMAIN result \cup {tag_name} |->
        IF x \in DOMAIN result THEN result[x] ELSE Strip(content)]

\* result[tag_name] = content.strip()
PutTag(result, tag_name, content) ==
    [x \in DOMAIN result \cup {tag_name} |->
        IF x = tag_name THEN Strip(content) ELSE result[x]]

\* the for loop over the matches, in order
RECURSIVE StoreAll(_, _)
StoreAll(matches, result) ==
    IF matches = <<>> THEN result
    ELSE StoreAll(Tail(matches), PutTag(result, Head(matches)[1], Head(matches)[2]))

\* parse_tags(text)
parse_tags(text) == StoreAll(FindAll(text, 1), <<>>)

\* a call of parse_tags runs to its return
ParseTags ==
    /\ p_pc = "call"
    /\ p_matches' = FindAll(p_text, 1)
    /\ p_result' = parse_tags(p_text)
    /\ p_pc' = "done"
    /\ UNCHANGED p_text

\* ====================================================================
\* Performer: white_agent/agent.py _execute_with_minestudio, with
\* white_agent/hybrid_policy.py HybridPolicy
\* ====================================================================
\* self.max_steps_per_subtask = 500
max_steps_per_subtask == 500

NoPlan == [none |-> TRUE]
NoOutcome == [kind |-> "none"]
\* task_config.get('text', '')
TaskDescription == "task"
SubtaskNames == <<"subtask 1", "subtask 2", "subtask 3">>

\* What the completion call of plan_task can give: it raises; its text is
\* not JSON; it is JSON but no object; it is an object that lacks one of the
\* keys initialize_plan reads, or has them all, with n subtasks.
PlanOutcomes ==
    [kind : {"service_error", "not_json", "json_array"}, missing : {"none"}, n : {0}]
      \cup [kind : {"object"},
            missing : {"none", "reasoning", "subtasks", "estimated_steps"},
            n : 0 .. MaxSubtasks]

\* the `except Exception` of plan_task: "Fallback simple plan"
FallbackPlan(description) ==
    [kind |-> "object", missing |-> "none", subtasks |-> <<description>>]

\* SubtaskPlanner.plan_task: json.loads of the completion text, or the fallback
\* when the call or json.loads raises
plan_task(outcome, description) ==
    IF outcome.kind \in {"service_error", "not_json"} THEN FallbackPlan(description)
    ELSE [kind |-> outcome.kind, missing |-> outcome.missing,
          subtasks |-> SubSeq(SubtaskNames, 1, outcome.n)]

\* plan['reasoning'], plan['subtasks'], plan['estimated_steps'] in
\* initialize_plan: a TypeError for a list, a KeyError for a missing key
InitializePlanRaises(plan) == plan.kind # "object" \/ plan.missing # "none"

\* _should_move_to_next_subtask
ShouldMoveToNextSubtask(plan, steps) ==
    plan = NoPlan \/ steps >= max_steps_per_subtask

\* StateManager.mark_subtask_complete
MarkComplete(done, subtask) ==
    IF \E i \in DOMAIN done : done[i] = subtask THEN done ELSE Append(done, subtask)

\* (mutant) the index moves two subtasks on
NextIndex_Skip(idx) == idx + 2

\* self.current_subtask_index += 1
NextIndex(idx) == idx + 1

\* the policy's plan-tracking fields
PlanState(idx, steps, done, current) ==
    [index |-> idx, steps |-> steps, completed |-> done, current |-> current]

\* _advance_subtask
AdvanceSubtask(plan, idx, steps, done, current) ==
    IF plan = NoPlan \/ idx >= Len(plan.subtasks)
    THEN PlanState(idx, steps, done, current)
    ELSE PlanState(NextIndex(idx), 0,
                   IF idx > 0 THEN MarkComplete(done, plan.subtasks[idx]) ELSE done,
                   plan.subtasks[idx + 1])

\* (mutant) `for step in range(max_steps + 1)`
StepsRemain_OneMore(k, budget) == k <= budget

\* `for step in range(max_steps)`: another iteration follows
StepsRemain(k, budget) == k < budget

\* the performer starts an execution: MinecraftSim(...) and HybridPolicy(...)
\* are constructed, or one of the constructors raises
WhiteStart ==
    /\ x_pc = "idle"
    /\ \E ok \in BOOLEAN, loaded \in BOOLEAN :
         \* the simulator is made, then load_vpt_policy is tried: on any
         \* exception vpt_policy stays None
         IF ok THEN x_pc' = "plan" /\ env' = "open" /\ vpt_policy' = loaded
                    /\ UNCHANGED signal
         ELSE x_pc' = "raised" /\ signal' = "start_raise" /\ UNCHANGED <<env, vpt_policy>>
    /\ UNCHANGED <<plan_outcome, current_plan, current_subtask_index, steps_in_subtask,
                   completed_subtasks, current_subtask, max_steps, step, steps_taken,
                   completed, env_steps, action_source>>

\* policy.initialize_plan(task_description)
InitializePlan ==
    /\ x_pc = "plan"
    /\ \E outcome \in PlanOutcomes :
         LET plan == plan_task(outcome, TaskDescription)
         IN /\ plan_outcome' = outcome
            /\ current_plan' = plan
            /\ current_subtask_index' = 0
            /\ IF InitializePlanRaises(plan)
               THEN x_pc' = "raised" /\ signal' = "plan_raise"
               ELSE x_pc' = "reset" /\ UNCHANGED signal
    /\ UNCHANGED <<steps_in_subtask, completed_subtasks, current_subtask, max_steps,
                   step, steps_taken, completed, env, env_steps, vpt_policy,
                   action_source>>

\* obs, info = env.reset(); steps_taken = 0; completed = False
EnvReset ==
    /\ x_pc = "reset"
    /\ \E ok \in BOOLEAN :
         IF ok THEN x_pc' = "loop" /\ UNCHANGED signal
         ELSE x_pc' = "raised" /\ signal' = "reset_raise"
    /\ step' = 0 /\ steps_taken' = 0 /\ completed' = FALSE
    /\ UNCHANGED <<plan_outcome, current_plan, current_subtask_index, steps_in_subtask,
                   completed_subtasks, current_subtask, max_steps, env, env_steps,
                   vpt_policy, action_source>>

\* get_action: the action comes from vpt_policy.get_action when a VPT policy
\* was loaded, else from obs.action_space.sample() (either can raise)
ActionSource(vpt) == IF vpt THEN "vpt_policy" ELSE "action_space_sample"

\* one iteration of the step loop: policy.get_action, then env.step and the
\* check of terminated / truncated (with the env.close() that follows a break)
ControlStep ==
    /\ x_pc = "loop"
    /\ StepsRemain(step, max_steps)
    /\ LET adv == IF ShouldMoveToNextSubtask(current_plan, steps_in_subtask)
                  THEN AdvanceSubtask(current_plan, current_subtask_index,
                                      steps_in_subtask, completed_subtasks, current_subtask)
                  ELSE PlanState(current_subtask_index, steps_in_subtask,
                                 completed_subtasks, current_subtask)
       IN /\ current_subtask_index' = adv.index
          /\ completed_subtasks' = adv.completed
          /\ current_subtask' = adv.current
          /\ \E outcome \in {"policy_raise", "step_raise", "continue",
                             "terminated", "truncated"} :
               /\ signal' = outcome
               /\ action_source' = IF outcome = "policy_raise" THEN action_source
                                    ELSE ActionSource(vpt_policy)
               \* the low-level policy raises before `self.steps_in_subtask += 1`
               /\ steps_in_subtask' = IF outcome = "policy_raise" THEN adv.steps
                                       ELSE adv.steps + 1
               /\ IF outcome \in {"policy_raise", "step_raise"}
                  THEN /\ x_pc' = "raised"
                       /\ UNCHANGED <<step, steps_taken, completed, env, env_steps>>
                  ELSE /\ env_steps' = env_steps + 1
                       /\ steps_taken' = step + 1
                       /\ step' = step + 1
                       /\ IF outcome \in {"terminated", "truncated"}
                          THEN completed' = TRUE /\ env' = "closed" /\ x_pc' = "done"
                          ELSE UNCHANGED <<completed, env, x_pc>>
    /\ UNCHANGED <<plan_outcome, current_plan, max_steps, vpt_policy>>

\* range(max_steps) is exhausted: the loop ends, env.close()
LoopEnd ==
    /\ x_pc = "loop"
    /\ ~StepsRemain(step, max_steps)
    /\ env' = "closed"
    /\ x_pc' = "done"
    /\ UNCHANGED <<plan_outcome, current_plan, current_subtask_index, steps_in_subtask,
                   completed_subtasks, current_subtask, max_steps, step, steps_taken,
                   completed, env_steps, signal, vpt_policy, action_source>>

\* ====================================================================
\* Performer: white_agent/agent.py execute, its try block around
\* _execute_with_minestudio and _execute_mock
\* ====================================================================
\* a file of output/<task_name>: who wrote it, during which execution, and
\* whether its name matches the pattern episode_*.mp4
VideoFile(writer, n) ==
    [writer |-> writer, execution |-> n, episode_name |-> (writer # "mock")]

\* task_output_dir.glob("episode_*.mp4")
EpisodeFiles(files) == {f \in files : f.episode_name}

\* step budgets of an execution
ExecBudgets == {0, MaxRunSteps}

\* execute reaches its try block: load_task_config, then the choice between
\* MineStudio and the mock; a new simulator and a new policy for the run
ExecuteBegin ==
    /\ e_pc = "idle" /\ e_no < MaxExecs
    /\ e_no' = e_no + 1
    /\ x_pc' = "idle" /\ plan_outcome' = NoOutcome /\ current_plan' = NoPlan
    /\ current_subtask_index' = 0 /\ steps_in_subtask' = 0
    /\ completed_subtasks' = <<>> /\ current_subtask' = "None"
    /\ max_steps' \in ExecBudgets /\ step' = 0 /\ steps_taken' = 0 /\ completed' = FALSE
    /\ env' = "none" /\ env_steps' = 0 /\ signal' = "none"
    /\ vpt_policy' = FALSE /\ action_source' = "none"
    /\ \E config_ok \in BOOLEAN :
         IF config_ok
         THEN e_pc' = "run" /\ e_reply' = "none" /\ e_artifact' = NoVideoArtifact
         ELSE \* load_task_config raises: "Error executing task"
              e_pc' = "replied" /\ e_reply' = "error" /\ e_artifact' = NoVideoArtifact
    /\ UNCHANGED <<white_minestudio, output_files>>

\* _execute_mock: `completed = True`
MockCompleted == TRUE

\* _execute_mock writes mock_episode_<time>.mp4 and returns it with
\* steps_taken = max_steps; execute reads the file and enqueues the artifact
MockReply ==
    /\ output_files' = output_files \cup {VideoFile("mock", e_no)}
    /\ e_artifact' = [video |-> VideoFile("mock", e_no), steps_taken |-> max_steps,
                    completed |-> MockCompleted]
    /\ e_reply' = "artifact"
    /\ e_pc' = "replied"

\* MINESTUDIO_AVAILABLE is False: the mock runs
ExecuteMock ==
    /\ e_pc = "run" /\ ~white_minestudio
    /\ MockReply
    /\ UNCHANGED <<white_minestudio, e_no, polVars>>

\* `except (EOFError, Exception)` around _execute_with_minestudio: the mock
\* runs after the failure
ExecuteFallback ==
    /\ e_pc = "run" /\ white_minestudio /\ x_pc = "raised"
    /\ MockReply
    /\ UNCHANGED <<white_minestudio, e_no, polVars>>

\* video_files[-1] of list(glob("episode_*.mp4")): the directory is listed
\* in no particular order, so any matching file can be the last one
Candidates(files) == EpisodeFiles(files)

\* the end of _execute_with_minestudio after env.close(): the recorder has
\* left this execution's recording in the directory (replacing the earlier
\* recordings if it reuses their names), a file is picked, read and sent
ExecuteReply ==
    /\ e_pc = "run" /\ white_minestudio /\ x_pc = "done"
    /\ \E reuses_names \in BOOLEAN :
         LET kept == IF reuses_names
                     THEN {f \in output_files : f.writer # "recorder"}
                     ELSE output_files
             files == kept \cup {VideoFile("recorder", e_no)}
         IN /\ output_files' = files
            /\ \E f \in Candidates(files) :
                 e_artifact' = [video |-> f, steps_taken |-> steps_taken,
                              completed |-> completed]
    /\ e_reply' = "artifact"
    /\ e_pc' = "replied"
    /\ UNCHANGED <<white_minestudio, e_no, polVars>>

\* the evaluator, run from the same checkout, decodes video_base64 and
\* writes it to output/<task_name>/episode_<time>.mp4
\* (green_agent/agent.py execute)
EvaluatorSavesVideo ==
    /\ e_pc = "replied" /\ e_reply = "artifact"
    /\ output_files' = output_files \cup {VideoFile("evaluator", e_artifact.video.execution)}
    /\ e_pc' = "idle"
    /\ UNCHANGED <<white_minestudio, e_no, e_reply, e_artifact, polVars>>

\* the reply is consumed by a caller that writes nothing into the directory
ReplyConsumed ==
    /\ e_pc = "replied"
    /\ e_pc' = "idle"
    /\ UNCHANGED <<white_minestudio, e_no, e_reply, e_artifact, output_files, polVars>>

\* ====================================================================
\* Cancellation: the cancel methods of both agent executors
\* ====================================================================
\* (mutant) cancel returns without doing anything
CancelResult_Silent == "returned"

\* raise NotImplementedError("Cancellation not supported")
CancelResult == "NotImplementedError"

\* MinecraftGreenAgentExecutor.cancel / MinecraftWhiteAgentExecutor.cancel
Cancel(agent) ==
    cancel_reply' = [cancel_reply EXCEPT ![agent] = CancelResult]

\* ------------------------------------------------------------ requests
Requests ==
    {Req(op, a) : op \in {"init", "step", "reset", "close", "assign"}, a \in AgentIds}
      \cup {Req("init", None), Req("generate", None), Req("list", None)}

InitWait ==
    /\ w_timeout = 0 /\ retry_cnt = 0 /\ w_pc = "idle" /\ w_result = "None"
    /\ polls = 0 /\ sleeps = 0 /\ failed_polls = 0 /\ w_last = "None"

InitRunAt(pc) ==
    /\ l_pc = pc /\ procs = [p \in {"green", "white"} |-> "none"]
    /\ ready = [p \in {"green", "white"} |-> "None"]
    /\ g_pc = "idle" /\ g_in = NoTags /\ events = <<>>
    /\ white_requests = 0 /\ white_response = NoReply
    /\ artifact_data = NoArtifact /\ files_written = 0 /\ scoring_calls = 0 /\ scored_path = "None"
    /\ l_outcome = "None"

InitRun == InitRunAt("idle")

InitRegistry ==
    /\ MINESTUDIO_AVAILABLE \in BOOLEAN
    /\ active_simulations = <<>>
    /\ generated_tasks = <<>>
    /\ sims = <<>>
    /\ in_progress = {}
    /\ response = NoResp
    /\ sim_calls = <<>>
    /\ live = {}
    /\ was_live = FALSE

\* parse_tags not called
InitCodec == p_text = <<>> /\ p_pc = "idle" /\ p_matches = <<>> /\ p_result = <<>>

\* no task execution, whatever its step budget
InitPerformer(budgets) ==
    /\ x_pc = "idle" /\ plan_outcome = NoOutcome /\ current_plan = NoPlan
    /\ current_subtask_index = 0 /\ steps_in_subtask = 0
    /\ completed_subtasks = <<>> /\ current_subtask = "None"
    /\ max_steps \in budgets /\ step = 0 /\ steps_taken = 0 /\ completed = FALSE
    /\ env = "none" /\ env_steps = 0 /\ signal = "none"
    /\ vpt_policy = FALSE /\ action_source = "none"

InitCancel == cancel_reply = [agent \in {"green", "white"} |-> "None"]

\* no batch evaluation
InitBatchIdle ==
    /\ task_count = 0 /\ b_i = 0 /\ outcomes = <<>> /\ batch_result = "pending"
    /\ prev_procs = [p \in {"green", "white"} |-> "none"]

\* no evaluation of a video
InitScore ==
    /\ ev_result = <<>> /\ scores = <<>> /\ overall_score = NoScore /\ ev_status = 0
    /\ vlm_result = <<>> /\ vlm_scores = <<>> /\ vlm_pc = "idle"

\* no compositional task name asked for
InitCompose == task_list = <<>> /\ c_result = <<>> /\ c_pc = "idle"

\* no message for the performer
InitRequest ==
    /\ r_in = <<>> /\ r_sent = NoSent /\ r_parsed = RequestDefaults
    /\ r_pc = "idle" /\ r_events = <<>>

\* no task execution of the performer
InitExecuteIdle ==
    /\ white_minestudio = TRUE /\ e_no = 0 /\ e_pc = "idle" /\ e_reply = "none"
    /\ e_artifact = NoVideoArtifact /\ output_files = {}

InitLater == InitBatchIdle /\ InitScore /\ InitCompose /\ InitRequest /\ InitExecuteIdle

InitOthers == InitCodec /\ InitPerformer({0}) /\ InitCancel /\ InitLater

Init == InitRegistry /\ InitWait /\ InitRun /\ InitOthers

\* the registry before any request, for the specifications of the other parts
InitRegistryIdle == InitRegistry /\ MINESTUDIO_AVAILABLE

Next ==
    \/ \E req \in Requests : Start(req) /\ UNCHANGED <<waitVars, runVars, otherVars>>
    \/ \E req \in Requests : init_task(req) /\ UNCHANGED <<waitVars, runVars, otherVars>>
    \/ \E req \in Requests : execute_action(req) /\ UNCHANGED <<waitVars, runVars, otherVars>>
    \/ \E req \in Requests : reset_task(req) /\ UNCHANGED <<waitVars, runVars, otherVars>>
    \/ \E req \in Requests : close_task(req) /\ UNCHANGED <<waitVars, runVars, otherVars>>
    \/ \E req \in Requests : generate_task(req) /\ UNCHANGED <<waitVars, runVars, otherVars>>
    \/ \E req \in Requests : assign_task(req) /\ UNCHANGED <<waitVars, runVars, otherVars>>
    \/ \E req \in Requests : list_active_agents(req) /\ UNCHANGED <<waitVars, runVars, otherVars>>

Spec == Init /\ [][Next]_vars

\* --------------------------------------------------------------------
\* wait_agent_ready on its own, for every timeout argument up to MaxTimeout
InitReady ==
    /\ InitRegistryIdle /\ InitRun /\ InitOthers
    /\ w_timeout \in 0 .. MaxTimeout
    /\ retry_cnt = 0 /\ w_pc = "test" /\ w_result = "None"
    /\ polls = 0 /\ sleeps = 0 /\ failed_polls = 0 /\ w_last = "None"

NextReady ==
    \/ WaitTest /\ UNCHANGED <<regVars, runVars, otherVars>>
    \/ WaitPoll /\ UNCHANGED <<regVars, runVars, otherVars>>
    \/ WaitSleep /\ UNCHANGED <<regVars, runVars, otherVars>>

SpecReady == InitReady /\ [][NextReady]_vars

\* --------------------------------------------------------------------
\* one evaluation run: launch_evaluation with the evaluator it starts
InitEval == InitRegistryIdle /\ InitWait /\ InitRunAt("start") /\ InitOthers

\* the evaluator works while its process runs
GreenRuns == procs["green"] = "running"

NextEval ==
    \/ LaunchStartGreen /\ UNCHANGED <<regVars, otherVars>>
    \/ LaunchGreenReady /\ UNCHANGED <<regVars, otherVars>>
    \/ LaunchWhiteReady /\ UNCHANGED <<regVars, otherVars>>
    \/ LaunchSend /\ UNCHANGED <<regVars, otherVars>>
    \/ LaunchReceive /\ UNCHANGED <<regVars, otherVars>>
    \/ WaitTest /\ UNCHANGED <<regVars, runVars, otherVars>>
    \/ WaitPoll /\ UNCHANGED <<regVars, runVars, otherVars>>
    \/ WaitSleep /\ UNCHANGED <<regVars, runVars, otherVars>>
    \/ GreenRuns /\ GreenParse /\ UNCHANGED <<regVars, waitVars, otherVars, l_pc, procs, l_outcome, ready>>
    \/ GreenRuns /\ GreenSendRequest /\ UNCHANGED <<regVars, waitVars, otherVars, l_pc, procs, l_outcome, ready>>
    \/ GreenRuns /\ GreenReceive /\ UNCHANGED <<regVars, waitVars, otherVars, l_pc, procs, l_outcome, ready>>
    \/ GreenRuns /\ GreenScore /\ UNCHANGED <<regVars, waitVars, otherVars, l_pc, procs, l_outcome, ready>>

SpecEval == InitEval /\ [][NextEval]_vars

\* --------------------------------------------------------------------
\* parse_tags on its own, for every text of up to MaxTextLen tokens
InitTags ==
    /\ InitRegistryIdle /\ InitWait /\ InitRun /\ InitPerformer({0}) /\ InitCancel /\ InitLater
    /\ p_text \in Texts /\ p_pc = "call" /\ p_matches = <<>> /\ p_result = <<>>

NextTags ==
    \/ ParseTags /\ UNCHANGED <<regVars, waitVars, runVars, polVars, cancel_reply, laterVars>>

SpecTags == InitTags /\ [][NextTags]_vars

\* --------------------------------------------------------------------
\* one task execution of the performer, for the step budgets 0, 1 and MaxSteps
StepBudgets == {0, 1, MaxSteps}

InitPolicy ==
    /\ InitRegistryIdle /\ InitWait /\ InitRun /\ InitCodec /\ InitCancel /\ InitLater
    /\ InitPerformer(StepBudgets)

NextPolicy ==
    \/ WhiteStart /\ UNCHANGED <<regVars, waitVars, runVars, codecVars, cancel_reply, laterVars>>
    \/ InitializePlan /\ UNCHANGED <<regVars, waitVars, runVars, codecVars, cancel_reply, laterVars>>
    \/ EnvReset /\ UNCHANGED <<regVars, waitVars, runVars, codecVars, cancel_reply, laterVars>>
    \/ ControlStep /\ UNCHANGED <<regVars, waitVars, runVars, codecVars, cancel_reply, laterVars>>
    \/ LoopEnd /\ UNCHANGED <<regVars, waitVars, runVars, codecVars, cancel_reply, laterVars>>

SpecPolicy == InitPolicy /\ [][NextPolicy]_vars

\* --------------------------------------------------------------------
\* one evaluation run with the performer's execution in it and with cancel
\* requests to both agents at any time; a step budget of MaxRunSteps
InitCancelRun ==
    /\ InitRegistryIdle /\ InitWait /\ InitRunAt("start") /\ InitCodec /\ InitCancel /\ InitLater
    /\ InitPerformer({MaxRunSteps})

\* the performer executes while the evaluator waits for its reply
WhiteRuns == procs["white"] = "running" /\ g_pc = "awaiting"

\* an agent's server answers requests while its process runs
Serving(agent) == procs[agent] = "running"

NextCancelRun ==
    \/ NextEval
    \/ WhiteRuns /\ WhiteStart /\ UNCHANGED <<regVars, waitVars, runVars, codecVars, cancel_reply, laterVars>>
    \/ WhiteRuns /\ InitializePlan /\ UNCHANGED <<regVars, waitVars, runVars, codecVars, cancel_reply, laterVars>>
    \/ WhiteRuns /\ EnvReset /\ UNCHANGED <<regVars, waitVars, runVars, codecVars, cancel_reply, laterVars>>
    \/ WhiteRuns /\ ControlStep /\ UNCHANGED <<regVars, waitVars, runVars, codecVars, cancel_reply, laterVars>>
    \/ WhiteRuns /\ LoopEnd /\ UNCHANGED <<regVars, waitVars, runVars, codecVars, cancel_reply, laterVars>>
    \/ \E agent \in {"green", "white"} :
         Serving(agent) /\ Cancel(agent)
           /\ UNCHANGED <<regVars, waitVars, runVars, codecVars, polVars, laterVars>>

SpecCancelRun == InitCancelRun /\ [][NextCancelRun]_vars

\* --------------------------------------------------------------------
\* launch_batch_evaluation over a list of 1 .. MaxTasks tasks
InitBatch ==
    /\ InitRegistryIdle /\ InitWait /\ InitRunAt("start") /\ InitCodec /\ InitCancel /\ InitExecuteIdle
    /\ InitPerformer({0}) /\ InitScore /\ InitCompose /\ InitRequest
    /\ task_count \in 1 .. MaxTasks /\ b_i = 1 /\ outcomes = <<>>
    /\ batch_result = "pending"
    /\ prev_procs = [p \in {"green", "white"} |-> "none"]

NextBatch ==
    \/ NextEval
    \/ BatchNextTask /\ UNCHANGED <<regVars, codecVars, polVars, cancel_reply, executeVars, scoreVars, composeVars, reqVars>>
    \/ BatchEnd /\ UNCHANGED <<regVars, codecVars, polVars, cancel_reply, executeVars, scoreVars, composeVars, reqVars>>

SpecBatch == InitBatch /\ [][NextBatch]_vars

\* --------------------------------------------------------------------
\* one evaluation of a video, by the server's endpoint or by the evaluator
\* agent, for every assessment text of up to MaxScoreLen tokens
InitScoring ==
    /\ InitRegistryIdle /\ InitWait /\ InitRun /\ InitCodec /\ InitCancel /\ InitExecuteIdle
    /\ InitPerformer({0}) /\ InitBatchIdle /\ InitScore /\ InitCompose /\ InitRequest

NextScoring ==
    \/ evaluate_video
         /\ UNCHANGED <<regVars, waitVars, runVars, codecVars, polVars, cancel_reply, executeVars, batchVars, composeVars, reqVars>>
    \/ evaluate_video_with_vlm
         /\ UNCHANGED <<regVars, waitVars, runVars, codecVars, polVars, cancel_reply, executeVars, batchVars, composeVars, reqVars>>

SpecScoring == InitScoring /\ [][NextScoring]_vars

\* --------------------------------------------------------------------
\* _process_compositional_task_list for every list of up to MaxListLen names
InitComposing ==
    /\ InitRegistryIdle /\ InitWait /\ InitRun /\ InitCodec /\ InitCancel /\ InitExecuteIdle
    /\ InitPerformer({0}) /\ InitBatchIdle /\ InitScore /\ InitRequest
    /\ task_list \in TaskLists /\ c_result = <<>> /\ c_pc = "call"

NextComposing ==
    \/ ProcessCompositionalTaskList
         /\ UNCHANGED <<regVars, waitVars, runVars, codecVars, polVars, cancel_reply, executeVars,
                        batchVars, scoreVars, reqVars>>

SpecComposing == InitComposing /\ [][NextComposing]_vars

\* --------------------------------------------------------------------
\* the evaluator's execute called by any client, with any tags in the request
AssessmentRequests ==
    [white_agent_url : BOOLEAN, task_name : BOOLEAN,
     difficulty : {"absent", "simple", "hard"},
     max_steps : {"absent", "int", "not_int"}]

InitAssess ==
    /\ InitRegistryIdle /\ InitWait /\ InitOthers
    /\ l_pc = "idle" /\ l_outcome = "None"
    /\ procs = [p \in {"green", "white"} |-> "running"]
    /\ ready = [p \in {"green", "white"} |-> "True"]
    /\ g_pc = "start" /\ g_in \in AssessmentRequests /\ events = <<>>
    /\ white_requests = 0 /\ white_response = NoReply
    /\ artifact_data = NoArtifact /\ files_written = 0 /\ scoring_calls = 0 /\ scored_path = "None"

NextAssess ==
    \/ GreenParse /\ UNCHANGED <<regVars, waitVars, otherVars, l_pc, procs, l_outcome, ready>>
    \/ GreenSendRequest /\ UNCHANGED <<regVars, waitVars, otherVars, l_pc, procs, l_outcome, ready>>
    \/ GreenReceive /\ UNCHANGED <<regVars, waitVars, otherVars, l_pc, procs, l_outcome, ready>>
    \/ GreenScore /\ UNCHANGED <<regVars, waitVars, otherVars, l_pc, procs, l_outcome, ready>>

SpecAssess == InitAssess /\ [][NextAssess]_vars

\* --------------------------------------------------------------------
\* one message to the performer, from the evaluator or from another client
InitRequesting ==
    /\ InitRegistryIdle /\ InitWait /\ InitRun /\ InitCodec /\ InitCancel /\ InitExecuteIdle
    /\ InitPerformer({0}) /\ InitBatchIdle /\ InitScore /\ InitCompose /\ InitRequest

NextRequesting ==
    \/ GreenEncodeRequest
         /\ UNCHANGED <<regVars, waitVars, runVars, codecVars, polVars, cancel_reply, executeVars,
                        batchVars, scoreVars, composeVars>>
    \/ ClientRequest
         /\ UNCHANGED <<regVars, waitVars, runVars, codecVars, polVars, cancel_reply, executeVars,
                        batchVars, scoreVars, composeVars>>
    \/ WhiteParseRequest
         /\ UNCHANGED <<regVars, waitVars, runVars, codecVars, polVars, cancel_reply, executeVars,
                        batchVars, scoreVars, composeVars>>
    \/ WhiteExecuteTask
         /\ UNCHANGED <<regVars, waitVars, runVars, codecVars, polVars, cancel_reply, executeVars,
                        batchVars, scoreVars, composeVars>>

SpecRequesting == InitRequesting /\ [][NextRequesting]_vars

\* --------------------------------------------------------------------
\* up to MaxExecs executions of one task name by the performer, one after
\* the other, with or without MineStudio
InitExecute ==
    /\ InitRegistryIdle /\ InitWait /\ InitRun /\ InitCodec /\ InitCancel
    /\ InitPerformer({0}) /\ InitBatchIdle /\ InitScore /\ InitCompose /\ InitRequest
    /\ white_minestudio \in BOOLEAN /\ e_no = 0 /\ e_pc = "idle" /\ e_reply = "none"
    /\ e_artifact = NoVideoArtifact /\ output_files = {}

\* _execute_with_minestudio runs inside the try block
Executing == e_pc = "run" /\ white_minestudio

execRest == <<regVars, waitVars, runVars, codecVars, cancel_reply, batchVars, scoreVars,
              composeVars, reqVars>>

NextExecute ==
    \/ ExecuteBegin /\ UNCHANGED execRest
    \/ Executing /\ WhiteStart /\ UNCHANGED <<execRest, executeVars>>
    \/ Executing /\ InitializePlan /\ UNCHANGED <<execRest, executeVars>>
    \/ Executing /\ EnvReset /\ UNCHANGED <<execRest, executeVars>>
    \/ Executing /\ ControlStep /\ UNCHANGED <<execRest, executeVars>>
    \/ Executing /\ LoopEnd /\ UNCHANGED <<execRest, executeVars>>
    \/ ExecuteMock /\ UNCHANGED execRest
    \/ ExecuteFallback /\ UNCHANGED execRest
    \/ ExecuteReply /\ UNCHANGED execRest
    \/ EvaluatorSavesVideo /\ UNCHANGED execRest
    \/ ReplyConsumed /\ UNCHANGED execRest

SpecExecute == InitExecute /\ [][NextExecute]_vars

\* ====================================================================
\* Properties of the session registry (checked under Spec)
\* ====================================================================
\* the handler of req returns in this step
Completes(req) == req \in in_progress /\ req \notin in_progress'

\* no call of the last handler on a simulator handle raised
AllCallsOk == \A i \in DOMAIN sim_calls : sim_calls[i].ok

\* the calls named `name` the handler of this step makes on handle h
CallsOn(calls, h, name) ==
    {i \in DOMAIN calls : calls[i].sim = h /\ calls[i].call = name}

\* C1: session lifecycle. For an agent_id whose init has succeeded (and that
\* has not been closed since), step and reset succeed whenever the simulator
\* handle does not fail, the first close succeeds and removes the session,
\* and a close for an id that is not (or no longer) live answers 404
\* SessionNotFound.
C1_SessionLifecycle ==
    /\ (response.op \in {"step", "reset"} /\ was_live /\ AllCallsOk)
          => response.status = 200
    /\ (response.op = "close" /\ was_live /\ AllCallsOk)
          => /\ response.status = 200
             /\ response.agent_id \notin DOMAIN active_simulations
             /\ response.agent_id \notin live
    /\ (response.op = "close" /\ ~was_live) => response.status = 404

\* a second close: the id has a closed simulator and the close answered 404
C1_Witness ==
    /\ response.op = "close"
    /\ response.status = 404
    /\ \E h \in DOMAIN sims :
          sims[h].record_dir = response.agent_id /\ sims[h].state = "closed"

\* C2: the keys of active_simulations (and the ids list_active_agents
\* returns) are exactly the ids with a successful init and no successful
\* close since; live changes only on a successful init or close, so a
\* failed init or close changes no membership.
C2_SessionIffInitNotClosed ==
    /\ DOMAIN active_simulations = live
    /\ response.op = "list" => response.active_agents = live

\* list_active_agents answers with a session present after a failed close
C2_Witness ==
    /\ response.op = "list"
    /\ response.active_agents # {}
    /\ \E h \in DOMAIN sims : sims[h].state = "closed"

\* C3: step, reset and close for an agent_id without a session answer 404,
\* call no simulator handle and leave registry and handles as they were.
C3_AbsentSessionRejected ==
    [][\A req \in Requests :
         (/\ Completes(req)
          /\ req.op \in {"step", "reset", "close"}
          /\ SessionAbsent(req.agent_id))
         => /\ response'.status = 404
            /\ sim_calls' = <<>>
            /\ active_simulations' = active_simulations
            /\ sims' = sims]_vars

\* a reset was refused while another id has a session with episode > 0
C3_Witness ==
    /\ response.op = "reset"
    /\ response.status = 404
    /\ \E b \in DOMAIN active_simulations : active_simulations[b].episode > 0

\* C4: an init for an agent_id that has a session is refused.
C4_AlreadyActive ==
    (response.op = "init" /\ was_live) => response.status # 200

\* C5: episode is 0 after a successful init; every reset of a session adds
\* exactly one to its episode and calls the handle's reset exactly once;
\* step changes no episode; a reset changes no other session.
C5_EpisodeCounting ==
    [][\A req \in Requests :
         Completes(req) =>
           /\ (req.op \in {"init", "assign"} /\ response'.status = 200)
                 => active_simulations'[response'.agent_id].episode = 0
           /\ (req.op = "reset" /\ ~SessionAbsent(req.agent_id))
                 => /\ active_simulations'[req.agent_id].episode
                         = active_simulations[req.agent_id].episode + 1
                    /\ Cardinality(CallsOn(sim_calls',
                                           active_simulations[req.agent_id].sim,
                                           "reset")) = 1
                    /\ Len(sim_calls') = 1
                    /\ \A b \in DOMAIN active_simulations \ {req.agent_id} :
                          active_simulations'[b] = active_simulations[b]
           /\ (req.op = "step" /\ ~SessionAbsent(req.agent_id))
                 => active_simulations' = active_simulations]_vars

\* a reset has completed on one session while another session is at episode 0
C5_Witness ==
    /\ response.op = "reset"
    /\ response.status \in {200, 500}
    /\ active_simulations[response.agent_id].episode = 1
    /\ \E b \in DOMAIN active_simulations : active_simulations[b].episode = 0

\* the agent_id a request in progress works on
AgentOf(req) == ResolveAgentId(req.agent_id)

\* C6: handlers for the same agent_id never overlap: at most one request
\* that works on a given agent_id is in progress.
C6_SerializedPerAgent ==
    \A r1, r2 \in in_progress :
        (r1 # r2 /\ r1.op # "list" /\ r2.op # "list" /\ r1.op # "generate"
           /\ r2.op # "generate")
        => AgentOf(r1) # AgentOf(r2)

\* a step is running on the handle of an active session
C6_Witness ==
    \E r \in in_progress : r.op = "step" /\ r.agent_id \in DOMAIN active_simulations

\* C7: while a handler for one agent_id is in progress, a step for another
\* agent_id that has a session can start.
C7_ParallelAcrossAgents ==
    \A r \in in_progress, b \in DOMAIN active_simulations :
        (r.op \in {"init", "step", "reset", "close", "assign"} /\ r.agent_id # b)
        => CanStart(Req("step", b))

\* ====================================================================
\* Properties of readiness polling (checked under SpecReady)
\* ====================================================================
\* C10: wait_agent_ready returns True exactly at the first poll that yields
\* a card, after k polls (k <= timeout) of which k-1 failed, each followed
\* by one sleep; it returns False after exactly `timeout` polls that all
\* failed; a raising poll is a failed poll and the call never ends with an
\* exception.
C10_ReadinessPolling ==
    /\ w_last = "card" => w_result = "True"
    /\ w_result = "True" =>
          /\ w_last = "card" /\ w_pc = "done"
          /\ polls >= 1 /\ polls <= w_timeout
          /\ failed_polls = polls - 1
          /\ sleeps = polls - 1
    /\ w_result = "False" =>
          /\ w_pc = "done"
          /\ polls = w_timeout /\ failed_polls = w_timeout /\ sleeps = w_timeout
    /\ w_result \in {"None", "True", "False"}
    /\ w_pc = "done" <=> w_result # "None"
    /\ (w_last = "raise" /\ w_pc # "done") => w_pc \in {"sleep", "test", "poll"}

\* the card appears at the fourth poll after three failed polls, one of
\* which raised: detected after 4 polls and 3 sleeps
C10_Witness ==
    /\ w_result = "True" /\ polls = 4 /\ sleeps = 3 /\ failed_polls = 3
    /\ w_timeout > 4

\* ====================================================================
\* Properties of the evaluation run (checked under SpecEval)
\* ====================================================================
\* the reply the evaluator has received
ReplyReceived == white_response # NoReply

\* the last message the evaluator has enqueued for its caller
LastEvent == IF events = <<>> THEN "none" ELSE events[Len(events)]

\* C8: the scoring service is invoked only for a reply of exactly one text
\* part whose video_artifact tag holds a JSON object; a reply with another
\* number of text parts or without the tag ends the run with an error
\* message to the caller, no file written and no scoring call.
C8_ScoringOnlyWithArtifact ==
    /\ scoring_calls > 0 =>
          /\ white_response.kind = "message"
          /\ white_response.parts = 1
          /\ white_response.artifact = "object"
    /\ (ReplyReceived /\ (white_response.parts # 1 \/ white_response.artifact = "none"))
          => /\ g_pc = "done"
             /\ LastEvent = "error_assessment"
             /\ files_written = 0
             /\ scoring_calls = 0

\* a reply of two text parts, one of them with an artifact, was refused
C8_Witness ==
    /\ white_response.kind = "message" /\ white_response.parts = 2
    /\ white_response.artifact = "object"
    /\ g_pc = "done" /\ LastEvent = "error_assessment"

\* C9: the task request goes to the performer only after the readiness
\* polling of the performer has returned True; when that polling has
\* returned False the run is over with the performer reported unready and
\* no task request is sent.
C9_RequestAfterReady ==
    /\ white_requests > 0 => ready["white"] = "True"
    /\ g_pc # "idle" => ready["white"] = "True"
    /\ ready["white"] = "False" =>
          /\ l_pc = "done" /\ l_outcome = "white_unready"
          /\ white_requests = 0 /\ g_pc = "idle"

\* the task request was sent after a polling that needed more than one poll
C9_Witness ==
    white_requests = 1 /\ ready["white"] = "True" /\ polls > 1

\* the other case: the performer's polling timed out after all its polls
\* and the run is over
C9_TimedOut ==
    /\ ready["white"] = "False" /\ l_pc = "done" /\ polls = LauncherReadyTimeout

\* ====================================================================
\* Properties of the tag codec (checked under SpecTags)
\* ====================================================================
\* '<t>' + p + '</t>'
Encode(t, p) == <<StartTag[t]>> \o p \o <<EndTag[t]>>

\* the payload of a text of the form Encode(t, p)
PayloadOf(text) == SubSeq(text, 2, Len(text) - 1)

\* the text is Encode(t, p) for some payload p
IsEncoded(text, t) ==
    Len(text) >= 2 /\ text[1] = StartTag[t] /\ text[Len(text)] = EndTag[t]

\* s without its leading and trailing whitespace, defined without recursion
Trimmed(s) ==
    LET solid == {i \in DOMAIN s : s[i] # Whitespace}
    IN IF solid = {} THEN <<>>
       ELSE SubSeq(s, Least(solid), CHOOSE i \in solid : \A k \in solid : k <= i)

\* the mapping {t: v}
Single(t, v) == [x \in {t} |-> v]

\* tok occurs in s
Occurs(tok, s) == \E i \in DOMAIN s : s[i] = tok

\* C11 as stated: for every word t and every payload p, parse_tags of
\* '<t>' + p + '</t>' returns exactly {t: p.strip()}.
C11_RoundTripAnyPayload ==
    \A t \in TagNames :
        (p_pc = "done" /\ IsEncoded(p_text, t))
        => p_result = Single(t, Trimmed(PayloadOf(p_text)))

\* C11 (amended): for every word t and every payload p that does not contain
\* the end tag '</t>', parse_tags of '<t>' + p + '</t>' returns exactly
\* {t: p.strip()}, and findall yields exactly one match.
C11_RoundTrip ==
    \A t \in TagNames :
        (p_pc = "done" /\ IsEncoded(p_text, t) /\ ~Occurs(EndTag[t], PayloadOf(p_text)))
        => /\ p_result = Single(t, Trimmed(PayloadOf(p_text)))
           /\ Len(p_matches) = 1

\* a payload with whitespace on both sides, holding the start tag of its
\* own word, was decoded to its trimmed form
C11_Witness ==
    /\ p_pc = "done"
    /\ \E t \in TagNames :
          /\ p_text = Encode(t, <<Whitespace, StartTag[t], Whitespace>>)
          /\ p_result = Single(t, <<StartTag[t]>>)

\* ---- reference reading of "well-formed top-level pairs"
\* nesting depth in front of position i: start tags minus end tags before i
RECURSIVE Depth(_, _)
Depth(text, i) ==
    IF i <= 1 THEN 0
    ELSE Depth(text, i - 1)
           + (IF IsStartTag(text[i - 1]) THEN 1
              ELSE IF IsEndTag(text[i - 1]) THEN -1 ELSE 0)

\* the tags of the text are properly nested: read left to right, every end
\* tag closes the innermost open start tag, and none stays open
RECURSIVE OpenAfter(_, _)
OpenAfter(text, i) ==
    IF i = 0 THEN <<>>
    ELSE LET before == OpenAfter(text, i - 1)
         IN IF before = <<"malformed">> THEN before
            ELSE IF IsStartTag(text[i]) THEN <<text[i]>> \o before
            ELSE IF IsEndTag(text[i])
                 THEN IF before # <<>> /\ IsStartTag(Head(before))
                         /\ text[i] = EndTag[NameAt(before, 1)]
                      THEN Tail(before) ELSE <<"malformed">>
            ELSE before

WellFormed(text) == OpenAfter(text, Len(text)) = <<>>

\* the start tags at depth 0 and, for each, the end tag that closes it
TopStarts(text) == {i \in DOMAIN text : IsStartTag(text[i]) /\ Depth(text, i) = 0}
ClosedAt(text, i) == Least({j \in i + 1 .. Len(text) : Depth(text, j + 1) = 0})
TopPayload(text, i) == SubSeq(text, i + 1, ClosedAt(text, i) - 1)

\* the text holds no start tag followed somewhere by its end tag
NoCompletePair(text) ==
    ~\E i \in DOMAIN text : MatchesAt(text, i)

\* C12 as stated: a text with N well-formed top-level pairs decodes to
\* exactly N entries, one per top-level pair with its payload trimmed; a
\* text without a complete pair decodes to the empty mapping.
C12_OneEntryPerTopLevelPair ==
    p_pc = "done" =>
      /\ WellFormed(p_text) =>
           /\ Cardinality(DOMAIN p_result) = Cardinality(TopStarts(p_text))
           /\ \A i \in TopStarts(p_text) :
                 /\ NameAt(p_text, i) \in DOMAIN p_result
                 /\ p_result[NameAt(p_text, i)] = Trimmed(TopPayload(p_text, i))
      /\ NoCompletePair(p_text) => p_result = <<>>

\* the top-level pairs have pairwise different words, and no payload holds
\* the end tag of its own word
FlatDistinct(text) ==
    /\ \A i, k \in TopStarts(text) : i # k => NameAt(text, i) # NameAt(text, k)
    /\ \A i \in TopStarts(text) : ~Occurs(EndTag[NameAt(text, i)], TopPayload(text, i))

\* C12 (amended): a text with N well-formed top-level pairs of pairwise
\* different words, none of whose payloads holds the end tag of its own
\* word, decodes to exactly N entries, one per top-level pair with its
\* payload trimmed (tags of other words nested in a payload stay in the
\* payload); a text without a complete pair, well-formed or not, decodes
\* to the empty mapping; parse_tags yields a mapping for every text.
C12_OneEntryPerDistinctPair ==
    /\ p_pc = "call" => DOMAIN parse_tags(p_text) \subseteq TagNames
    /\ p_pc = "done" =>
         /\ (WellFormed(p_text) /\ FlatDistinct(p_text)) =>
              /\ Cardinality(DOMAIN p_result) = Cardinality(TopStarts(p_text))
              /\ Len(p_matches) = Cardinality(TopStarts(p_text))
              /\ \A i \in TopStarts(p_text) :
                    /\ NameAt(p_text, i) \in DOMAIN p_result
                    /\ p_result[NameAt(p_text, i)] = Trimmed(TopPayload(p_text, i))
         /\ NoCompletePair(p_text) => p_result = <<>>

\* two top-level pairs with free text between them were decoded to two entries
C12_Witness ==
    /\ p_pc = "done"
    /\ WellFormed(p_text) /\ FlatDistinct(p_text)
    /\ Cardinality(TopStarts(p_text)) = 2
    /\ Occurs("x", p_text)
    /\ Cardinality(DOMAIN p_result) = 2

\* a text of stray tags only (an end tag in front of its start tag) was
\* decoded to the empty mapping
C12_MalformedEmpty ==
    /\ p_pc = "done" /\ ~WellFormed(p_text) /\ NoCompletePair(p_text)
    /\ \E t \in TagNames : Occurs(StartTag[t], p_text) /\ Occurs(EndTag[t], p_text)
    /\ p_result = <<>>

\* ====================================================================
\* Properties of task resolution and generation (checked under Spec)
\* ====================================================================
\* the field f of the last response, or "none" when it has no such field
Field(r, f) == IF f \in DOMAIN r THEN r[f] ELSE "none"

\* C13: an init for a predefined task whose configuration file does not
\* exist is answered 404.
C13_MissingConfigNotFound ==
    (response.op = "init" /\ Field(response, "cause") = "config_not_found")
    => response.status = 404

\* C14: a completion without the custom_init_commands marker makes
\* generate_task, and assign_task through it, answer with an error after
\* the one completion call; no task id or config is returned, the store of
\* generated tasks stays as it was, and no simulator or session is created.
C14_NoMarkerFails ==
    [][\A req \in Requests :
         (Completes(req) /\ Field(response', "completion") = "no_marker")
         => /\ response'.status = 500
            /\ response'.completion_calls = 1
            /\ "task_id" \notin DOMAIN response'
            /\ generated_tasks' = generated_tasks
            /\ active_simulations' = active_simulations
            /\ sims' = sims
            /\ sim_calls' = <<>>]_vars

\* an assignment failed on a completion without the marker while the store
\* holds an earlier generated task
C14_Witness ==
    /\ response.op = "assign"
    /\ Field(response, "completion") = "no_marker"
    /\ generated_tasks # <<>>

\* C15: a successful generate_task adds exactly one entry, under an id that
\* was no key of the store, and returns that id; no step of any handler
\* removes or changes an entry the store holds, and the store grows by at
\* most one entry per step.
C15_StoreOnlyGrows ==
    [][/\ \A id \in DOMAIN generated_tasks :
             /\ id \in DOMAIN generated_tasks'
             /\ generated_tasks'[id] = generated_tasks[id]
       /\ Cardinality(DOMAIN generated_tasks')
             <= Cardinality(DOMAIN generated_tasks) + 1
       /\ \A req \in Requests :
             (Completes(req) /\ req.op = "generate" /\ response'.status = 200)
             => /\ response'.task_id \notin DOMAIN generated_tasks
                /\ DOMAIN generated_tasks'
                     = DOMAIN generated_tasks \cup {response'.task_id}]_vars

\* the store holds two generated tasks, the first of them in use by a
\* session that has been reset
C15_Witness ==
    /\ Cardinality(DOMAIN generated_tasks) = 2
    /\ \E a \in DOMAIN active_simulations :
          active_simulations[a].task_id = 1 /\ active_simulations[a].episode > 0

\* ====================================================================
\* Properties of the performer's execution (checked under SpecPolicy)
\* ====================================================================
\* C16: current_subtask_index never decreases in a step of the execution,
\* and 0 <= current_subtask_index <= len(subtasks) after every step.
C16_IndexMonotoneBounded ==
    [][/\ current_subtask_index' >= current_subtask_index
       /\ current_subtask_index' >= 0
       /\ current_plan' # NoPlan =>
             current_subtask_index' <= Len(current_plan'.subtasks)
       /\ current_plan' = NoPlan => current_subtask_index' = 0]_vars

\* the index has reached the end of a plan of two subtasks
C16_Witness ==
    /\ x_pc = "loop"
    /\ Len(current_plan.subtasks) = 2
    /\ current_subtask_index = 2
    /\ completed_subtasks = <<current_plan.subtasks[1]>>

\* C17: a control step that starts with a plan and with steps_in_subtask at
\* or over the threshold marks the subtask being executed complete, moves
\* the index on by one and restarts steps_in_subtask at zero (one, once
\* the step is counted).
C17_AdvanceAtThreshold ==
    [][(/\ ControlStep
        /\ current_plan # NoPlan
        /\ steps_in_subtask >= max_steps_per_subtask)
       => /\ current_subtask_index' = current_subtask_index + 1
          /\ steps_in_subtask' \in {0, 1}
          /\ current_subtask # "None" =>
                \E i \in DOMAIN completed_subtasks' :
                    completed_subtasks'[i] = current_subtask]_vars

\* the completion service failed plan_task, or gave it something
\* initialize_plan cannot read
PlanningFailure(outcome) == outcome.kind # "object" \/ outcome.missing # "none"

\* C18: initialize_plan never raises, and after a failure of the completion
\* service (error, no JSON, no object, a key missing) the plan is the one
\* subtask [task_description].
C18_PlanningNeverThrows ==
    plan_outcome # NoOutcome =>
      /\ signal # "plan_raise"
      /\ PlanningFailure(plan_outcome) =>
            (current_plan # NoPlan /\ current_plan.subtasks = <<TaskDescription>>)

\* the step loop is over: left normally or by an exception
LoopOver ==
    x_pc = "done" \/ (x_pc = "raised" /\ signal \in {"policy_raise", "step_raise"})

C20_CancelRejected ==
    [][\A agent \in {"green", "white"} :
          cancel_reply'[agent] # cancel_reply[agent]
          => /\ cancel_reply'[agent] = "NotImplementedError"
             /\ UNCHANGED <<runVars, polVars, waitVars>>]_vars

\* both agents have refused a cancel, the performer's in the middle of its
\* step loop while the evaluator was waiting for the reply
C20_Witness ==
    /\ cancel_reply["green"] = "NotImplementedError"
    /\ cancel_reply["white"] = "NotImplementedError"
    /\ x_pc = "loop" /\ step > 0 /\ g_pc = "awaiting"

\* ====================================================================
\* Properties of the batch evaluation (checked under SpecBatch)
\* ====================================================================
\* C21: when launch_evaluation begins for a task, every agent process that
\* was started for the task before it has been terminated and joined,
\* on whichever path that launch_evaluation ended.
C21_TeardownBeforeNextTask ==
    \A p \in {"green", "white"} : prev_procs[p] \in {"none", "joined"}

\* C22: when launch_batch_evaluation has returned, every task of the list
\* was evaluated, and if one of them failed the value returned records it.
C22_FailureRecorded ==
    batch_result # "pending" =>
      /\ Len(outcomes) = task_count
      /\ (\E k \in DOMAIN outcomes : outcomes[k] # "assessed") => batch_result # "None"

\* ====================================================================
\* Properties of the score extraction (checked under SpecScoring)
\* ====================================================================
\* the lines of the text that are 'M: v' or '- M: v', as the values v
ValuesFor(text, m) ==
    LET lines == SplitLines(text)
    IN {SubSeq(lines[k], 2, Len(lines[k])) :
            k \in {k \in DOMAIN lines :
                     lines[k] # <<>> /\ lines[k][1] = WithColon[m]}}
       \cup
       {SubSeq(lines[k], 3, Len(lines[k])) :
            k \in {k \in DOMAIN lines :
                     Len(lines[k]) >= 2 /\ lines[k][1] = Dash
                       /\ lines[k][2] = WithColon[m]}}

\* the first integers of those values
ScoresFor(text, m) == {FirstNumber(v) : v \in ValuesFor(text, m)} \ {NoNumber}

\* the metric's name is nowhere in the text
Unnamed(text, m) == \A i \in DOMAIN text : text[i] # WithColon[m]

\* what the claim asks of the dict an extractor made of a text, where
\* `key` is the key of metric m in that dict
ExtractedAsClaimed(text, dict, m, key) ==
    /\ ScoresFor(text, m) # {} => (key \in DOMAIN dict /\ dict[key] \in ScoresFor(text, m))
    /\ Unnamed(text, m) => key \notin DOMAIN dict

\* C23: for each expected metric M, when the text has a line 'M: v' or
\* '- M: v' whose v holds an integer, the extractor records the first integer
\* of such a v as M's score, and a metric the text does not name is absent
\* from the result; for the server's evaluate endpoint and for
\* evaluate_video_with_vlm alike.
C23_ScoreExtraction ==
    /\ ev_status = 200 =>
         \A m \in MetricNames : ExtractedAsClaimed(ev_result, scores, m, m)
    /\ vlm_pc = "returned" =>
         \A m \in MetricNames : ExtractedAsClaimed(vlm_result, vlm_scores, m, <<m>>)

\* the score extracted for a metric, 0 when none was
Extracted(m) == IF m \in DOMAIN scores THEN scores[m] ELSE 0

\* C24: the overall score of an answer of the evaluate endpoint is the sum of
\* the extracted scores divided by their number, and there is none when no
\* score was extracted or when the call failed.
C24_OverallIsMean ==
    /\ ev_status # 200 => overall_score = NoScore
    /\ ev_status = 200 =>
         /\ DOMAIN scores \subseteq MetricNames
         /\ IF DOMAIN scores = {} THEN overall_score = NoScore
            ELSE /\ overall_score # NoScore
                 /\ overall_score.den > 0
                 /\ overall_score.num * Cardinality(DOMAIN scores)
                      = (Extracted("Task Progress") + Extracted("Action Control"))
                          * overall_score.den

\* two metrics with different scores were extracted: the mean of 7 and 4
C24_Witness ==
    /\ ev_status = 200
    /\ scores = [m \in MetricNames |-> IF m = "Task Progress" THEN 7 ELSE 4]
    /\ overall_score = [num |-> 11, den |-> 2]

\* a text was assessed and no score could be extracted from it
C24_NoneExtracted ==
    ev_status = 200 /\ ev_result # <<>> /\ scores = <<>> /\ overall_score = NoScore

\* ====================================================================
\* Properties of the task name composition (checked under SpecComposing)
\* ====================================================================
\* C25: the name made of two task names A, B is 'A or B'; the name made of
\* three is 'A c1 B c2 C' with c1 and c2 each ' and ' or ' or '; the names
\* are all there, in the order of the list.
C25_Composition ==
    c_pc = "returned" =>
      /\ Len(task_list) = 2 => c_result = <<task_list[1], " or ", task_list[2]>>
      /\ Len(task_list) = 3 =>
           \E c1 \in {" and ", " or "}, c2 \in {" and ", " or "} :
              c_result = <<task_list[1], c1, task_list[2], c2, task_list[3]>>

\* three names joined by ' and ' and then ' or '
C25_Witness ==
    /\ c_pc = "returned"
    /\ task_list = <<"mine stone", "find a cave", "plant a tree">>
    /\ c_result = <<"mine stone", " and ", "find a cave", " or ", "plant a tree">>

\* the other pairs of connectors, and two names
C25_OrAnd ==
    c_pc = "returned" /\ Len(c_result) = 5 /\ c_result[2] = " or " /\ c_result[4] = " and "
C25_AndAnd ==
    c_pc = "returned" /\ Len(c_result) = 5 /\ c_result[2] = " and " /\ c_result[4] = " and "
C25_OrOr ==
    c_pc = "returned" /\ Len(c_result) = 5 /\ c_result[2] = " or " /\ c_result[4] = " or "
C25_Pair ==
    c_pc = "returned" /\ Len(task_list) = 2 /\ Len(c_result) = 3 /\ c_result[2] = " or "

\* ====================================================================
\* Properties of the evaluator called by any client (checked under SpecAssess)
\* ====================================================================
\* the request has both tags and a max_steps the evaluator can read
WellFormedRequest ==
    g_in.white_agent_url /\ g_in.task_name /\ g_in.max_steps # "not_int"

ErrorEvents == {"error_missing_tag", "error_no_config", "error_no_criteria"}

\* execute has ended, or has gone past its checks
PastChecks == g_pc \notin {"idle", "start"}

\* C26: a task request goes to the performer only for a request with both
\* tags whose config and criteria files were found; in every other case,
\* a malformed max_steps among them, execute reports exactly one error
\* message and contacts neither the performer nor the scoring service.
C26_RequestOnlyWhenComplete ==
    /\ white_requests > 0 =>
         (WellFormedRequest /\ events # <<>> /\ events[1] = "requesting")
    /\ (PastChecks /\ ~WellFormedRequest) =>
         /\ Len(events) = 1 /\ events[1] \in ErrorEvents
         /\ white_requests = 0 /\ scoring_calls = 0
    /\ (events # <<>> /\ events[1] \in ErrorEvents) =>
         Len(events) = 1 /\ white_requests = 0 /\ scoring_calls = 0 /\ g_pc = "done"

\* ====================================================================
\* Properties of the performer's execute (checked under SpecRequesting)
\* ====================================================================
\* C27: when execute has ended, by return or by exception, it has enqueued
\* exactly one message: an error text, or a text with the video_artifact.
C27_ExactlyOneReply ==
    /\ Len(r_events) <= 1
    /\ r_pc \in {"done", "raised"} => Len(r_events) = 1

\* the four values of a request the evaluator sent
SentValues ==
    [task_name |-> r_sent.task_name, difficulty |-> r_sent.difficulty,
     max_steps |-> r_sent.max_steps, task_config_path |-> r_sent.task_config_path,
     raised |-> FALSE]

\* C28: once the performer has read a request the evaluator sent, it holds
\* the task name, difficulty, step budget and configuration path that were
\* sent, whatever the description, and goes on to execute the task.
C28_RequestRoundTrip ==
    (r_sent # NoSent /\ r_pc \notin {"idle", "received"}) =>
      /\ r_parsed = SentValues
      /\ r_pc \in {"execute", "done"}
      /\ r_events \in {<<>>, <<"artifact">>, <<"error_executing">>}

\* the round trip works for a description of plain lines
C28_PlainDescription ==
    /\ r_sent # NoSent /\ r_pc = "execute" /\ r_parsed = SentValues
    /\ r_sent.max_steps = 7
    /\ r_sent.description = <<Line("text", "x"), Line("text", "x")>>

\* the performer's reply is one text part with a video_artifact that is a
\* JSON object
ArtifactReceived ==
    /\ white_response # NoReply
    /\ ExactlyOneTextPart(white_response) /\ IsJsonObject(white_response)

\* C29: the evaluator writes a file, and passes its path to the scoring
\* service, exactly when the artifact has inline video bytes; when the
\* video_base64 field is absent, null or empty it writes no file and calls
\* the scoring service with the artifact's video_path.
C29_InlineVideoOnly ==
    /\ files_written > 0 => white_response.video_base64 = "bytes"
    /\ scoring_calls > 0 =>
         scored_path = IF white_response.video_base64 = "bytes"
                       THEN "written_file" ELSE "artifact_video_path"
    /\ (ArtifactReceived /\ g_pc = "done"
          /\ white_response.video_base64 \in {"absent", "null", "empty"}) =>
         (scoring_calls = 1 /\ files_written = 0)

\* inline bytes were written to a file whose path went to the scoring service
C29_BytesWritten ==
    /\ white_response # NoReply /\ white_response.video_base64 = "bytes"
    /\ files_written = 1 /\ scoring_calls = 1 /\ scored_path = "written_file"

\* no video_base64 field: the artifact's video_path went to the scoring service
C29_PathPassed ==
    /\ white_response # NoReply /\ white_response.video_base64 = "absent"
    /\ files_written = 0 /\ scoring_calls = 1 /\ scored_path = "artifact_video_path"

\* ====================================================================
\* Properties of the action choice (checked under SpecPolicy)
\* ====================================================================
\* C30: in every control step the action comes from the low-level executor
\* when one was loaded, and from the action mapping (subtask_to_actions for
\* the current subtask) when none was.
C30_ActionFromExecutorOrMapper ==
    action_source # "none" =>
      action_source = IF vpt_policy THEN "vpt_policy" ELSE "action_mapper"

\* steps were taken with the low-level executor loaded
C30_ExecutorUsed ==
    vpt_policy /\ action_source = "vpt_policy" /\ steps_taken > 0

\* ====================================================================
\* Properties of repeated tags (checked under SpecTags)
\* ====================================================================
\* the top-level start tags of word t, and the last of them
TopStartsOf(text, t) == {i \in TopStarts(text) : NameAt(text, i) = t}
LastTopStart(text, t) ==
    CHOOSE i \in TopStartsOf(text, t) : \A k \in TopStartsOf(text, t) : k <= i

\* no top-level payload holds the end tag of its own word
OwnEndFree(text) ==
    \A i \in TopStarts(text) : ~Occurs(EndTag[NameAt(text, i)], TopPayload(text, i))

\* C31 as stated: for every text in which a word occurs more than once at
\* top level, parse_tags keeps the payload of the last occurrence.
C31_LastWinsAnyText ==
    (p_pc = "done" /\ WellFormed(p_text)) =>
      \A t \in TagNames :
          Cardinality(TopStartsOf(p_text, t)) > 1
          => /\ t \in DOMAIN p_result
             /\ p_result[t] = Trimmed(TopPayload(p_text, LastTopStart(p_text, t)))

\* C31 (amended): for every properly nested text none of whose top-level
\* payloads holds the end tag of its own word, and every word that occurs
\* more than once at top level, parse_tags keeps the trimmed payload of the
\* last occurrence.
C31_LastWins ==
    (p_pc = "done" /\ WellFormed(p_text) /\ OwnEndFree(p_text)) =>
      \A t \in TagNames :
          Cardinality(TopStartsOf(p_text, t)) > 1
          => /\ t \in DOMAIN p_result
             /\ p_result[t] = Trimmed(TopPayload(p_text, LastTopStart(p_text, t)))

\* a word occurred twice at top level with different payloads, and the
\* second payload was kept
C31_Witness ==
    /\ p_pc = "done" /\ WellFormed(p_text) /\ OwnEndFree(p_text)
    /\ \E t \in TagNames :
          /\ Cardinality(TopStartsOf(p_text, t)) = 2
          /\ \E i \in TopStartsOf(p_text, t) :
                /\ i # LastTopStart(p_text, t)
                /\ Trimmed(TopPayload(p_text, i)) # p_result[t]
          /\ p_result[t] = Trimmed(TopPayload(p_text, LastTopStart(p_text, t)))

\* a word occurred three times at top level
C31_ThreeOccurrences ==
    /\ p_pc = "done" /\ WellFormed(p_text)
    /\ \E t \in TagNames : Cardinality(TopStartsOf(p_text, t)) = 3

\* ====================================================================
\* Properties of plan tracking (checked under SpecPolicy)
\* ====================================================================
\* control steps of this episode have run under a plan that has subtasks
SteppedUnderPlan ==
    /\ x_pc \in {"loop", "done"} /\ env_steps > 0
    /\ Len(current_plan.subtasks) > 0

\* C32: from the first control step of the episode on, current_subtask is
\* set, and it is the plan's first subtask until the first advance.
C32_CurrentSubtaskSet ==
    SteppedUnderPlan =>
      /\ current_subtask # "None"
      /\ current_subtask_index <= 1 => current_subtask = current_plan.subtasks[1]

\* after the first advance current_subtask is the plan's first subtask
C32_SetAtFirstAdvance ==
    /\ SteppedUnderPlan /\ current_subtask_index = 1
    /\ current_subtask = current_plan.subtasks[1]

\* ====================================================================
\* Properties of handles, generated ids and recordings (checked under Spec)
\* ====================================================================
\* the sessions of the registry that hold handle h
HoldersOf(h) == {a \in DOMAIN active_simulations : active_simulations[a].sim = h}

\* C33: every simulator handle that was created and not closed is held by
\* exactly one session of the registry.
C33_NoOrphanHandle ==
    \A h \in DOMAIN sims : sims[h].state = "open" => Cardinality(HoldersOf(h)) = 1

\* an open handle is held by a session while another handle was closed
C33_HeldHandle ==
    \E h, k \in DOMAIN sims :
        sims[h].state = "open" /\ Cardinality(HoldersOf(h)) = 1 /\ sims[k].state = "closed"

\* C34: the id generated for an init without agent_id is not the id of a
\* session that is active when the init is handled, so that such an init
\* replaces no session.
C34_GeneratedIdFresh ==
    [][Completes(Req("init", None))
         => /\ ResolveAgentId(None) \notin DOMAIN active_simulations
            /\ \A a \in DOMAIN active_simulations :
                  active_simulations'[a] = active_simulations[a]]_vars

\* an init without agent_id has made a session while another one was active
C34_GeneratedBesideActive ==
    /\ response.op = "init" /\ response.status = 200 /\ ~was_live
    /\ Cardinality(DOMAIN active_simulations) = 2

\* C35: a reset whose handle reset fails reports an error and leaves the
\* session as it was, so that a session's episode counts the resets that
\* completed successfully since its init.
C35_FailedResetNoChange ==
    [][\A req \in Requests :
         (Completes(req) /\ req.op = "reset" /\ response'.status # 200)
         => active_simulations' = active_simulations]_vars

\* a reset of a session has completed successfully and was counted
C35_ResetCounted ==
    /\ response.op = "reset" /\ response.status = 200
    /\ active_simulations[response.agent_id].episode = 1

\* C36: the list a close returns holds only recordings of the session that
\* is closed, not of an earlier session of the same agent_id.
C36_OwnRecordingsOnly ==
    (response.op = "close" /\ response.status = 200)
    => response.video_files \subseteq {sim_calls[1].sim}

\* a close has returned the recording of the session it closed
C36_OwnRecordingReturned ==
    /\ response.op = "close" /\ response.status = 200
    /\ sim_calls[1].sim \in response.video_files

\* ====================================================================
\* Properties of progress through the plan (checked under SpecPolicy)
\* ====================================================================
\* the subtask is in completed_subtasks
IsCompleted(subtask) == \E i \in DOMAIN completed_subtasks : completed_subtasks[i] = subtask

\* C37: an episode that has run for more than len(subtasks) *
\* max_steps_per_subtask control steps ends with every subtask of the plan,
\* the last one included, in completed_subtasks; and completed_subtasks
\* holds only subtasks of the plan in front of the one being executed.
C37_PlanProgress ==
    (x_pc \in {"loop", "done"}) =>
      /\ (x_pc = "done" /\ env_steps > Len(current_plan.subtasks) * max_steps_per_subtask)
            => \A i \in DOMAIN current_plan.subtasks : IsCompleted(current_plan.subtasks[i])
      /\ \A k \in DOMAIN completed_subtasks :
            \E i \in 1 .. current_subtask_index - 1 :
                completed_subtasks[k] = current_plan.subtasks[i]

\* the first subtask of a plan of two was completed when the second began
C37_FirstCompleted ==
    /\ x_pc = "done" /\ Len(current_plan.subtasks) = 2
    /\ completed_subtasks = <<current_plan.subtasks[1]>>
    /\ current_subtask = current_plan.subtasks[2]

\* ====================================================================
\* Properties of the performer's reply (checked under SpecExecute)
\* ====================================================================
\* the last execution has replied with an artifact
ArtifactSent == e_reply = "artifact"

\* C38: an artifact reports completed = true only if the simulator
\* signalled terminated or truncated during this execution.
C38_CompletedOnlyOnSignal ==
    (ArtifactSent /\ e_artifact.completed) => signal \in {"terminated", "truncated"}

\* an execution that the simulator ended was reported as completed
C38_CompletedBySignal ==
    /\ ArtifactSent /\ e_artifact.completed
    /\ e_artifact.video.writer # "mock" /\ signal \in {"terminated", "truncated"}

\* an execution that used up its step budget was reported as not completed
C38_BudgetUsedUp ==
    /\ ArtifactSent /\ ~e_artifact.completed
    /\ max_steps > 0 /\ e_artifact.steps_taken = max_steps

\* C39: the simulator environment created for an execution is closed before
\* the performer replies.
C39_ClosedBeforeReply ==
    e_pc = "replied" => env # "open"

\* the reply followed a step loop whose environment was closed
C39_ClosedAfterLoop ==
    e_pc = "replied" /\ env = "closed" /\ env_steps > 0

\* C40: the video of an artifact was recorded during the execution that
\* sent the artifact.
C40_VideoOfThisExecution ==
    ArtifactSent => e_artifact.video.execution = e_no

\* the second execution sent its own recording
C40_OwnRecording ==
    /\ ArtifactSent /\ e_no = 2
    /\ e_artifact.video = VideoFile("recorder", 2)

\* the second execution sent the copy of the first execution's video that
\* the evaluator had saved
C40_EvaluatorCopySent ==
    /\ ArtifactSent /\ e_no = 2
    /\ e_artifact.video = VideoFile("evaluator", 1)

====
